---- MODULE Spec2Model ----
(***************************************************************************)
(* The graph component of Secondbrain (src/unnamed/part_001, the           *)
(* debug-instrumented GraphCanvas): the mirror graphData, the vis DataSets *)
(* nodesDataset/edgesDataset, the relationship-creation workflow driven by *)
(* handleNetworkClick, and the asynchronous backend requests issued        *)
(* through safeInvoke.                                                     *)
(***************************************************************************)
EXTENDS Integers, Sequences, FiniteSets, TLC

\* JavaScript null and undefined.
NULL == "null"
UNDEF == "undefined"

\* ---------------------------------------------------------------- bounds
\* Requests the component makes after the initial load: refreshes called by
\* the host, relationships created and relationships deleted by the user.
\* (The refresh that follows a deletion is part of the deletion.)
MaxRequests == 2

\* The diaries that are deleted in another view while the graph is shown.
DeletableDiaries == { "d1" }

\* --------------------------------------------------------- backend records
\* The label the backend gives a node: a diary's title, a tag's name.
NodeLabel(id) ==
    CASE id = "d1" -> "Monday"
      [] id = "d2" -> "Tuesday"
      [] OTHER -> "work"

\* Node records { id, label, node_type, properties } as get_graph_data
\* returns them.  The only part of properties the component reads is
\* created_at: the field holds that value, or UNDEF when the record has no
\* properties.
CreatedAt == "2025-01-01"

BackendNode(id, type) ==
    [id |-> id, label |-> NodeLabel(id), node_type |-> type,
     properties |-> CreatedAt]

\* Edge records { id, source, target, label }.
BackendEdge(id, source, target) == [id |-> id, source |-> source, target |-> target]

\* The graph the backend holds when the component is mounted: two diaries,
\* one tag, and the implicit tag edge of the first diary.
InitialBackend ==
    [nodes |-> << BackendNode("d1", "diary"), BackendNode("d2", "diary"),
                  BackendNode("t1", "tag") >>,
     edges |-> << BackendEdge("e1", "d1", "t1") >>]

\* The ids uuidv4 returns, in the order of the calls.
UuidPool == << "r1", "r2", "r3", "r4" >>

\* Variant: every call returns the same id.
uuidv4Fixed(n) == UuidPool[1]

uuidv4(n) == UuidPool[n]

\* ---------------------------------------------------------------- helpers
Range(s) == { s[i] : i \in 1..Len(s) }

Ids(s) == { s[i].id : i \in 1..Len(s) }

SetIds(S) == { r.id : r \in S }

\* Array.prototype.filter with the predicate "id is not in drop".
RECURSIVE FilterOutIds(_, _)
FilterOutIds(s, drop) ==
    IF s = << >> THEN << >>
    ELSE IF Head(s).id \in drop
         THEN FilterOutIds(Tail(s), drop)
         ELSE << Head(s) >> \o FilterOutIds(Tail(s), drop)

\* The sequence s without its i-th element.
RemoveAt(s, i) == SubSeq(s, 1, i - 1) \o SubSeq(s, i + 1, Len(s))

\* No id occurs twice in the array s.
NoDuplicateIds(s) == \A i, j \in 1..Len(s) : s[i].id = s[j].id => i = j

\* ------------------------------------------------------------------ mapper
\* One render-ready node per backend node record: group and node_type are
\* both copied from node_type.
\* The value that stands for "the call threw a TypeError".
THROWN == << "TypeError" >>

\* Variant: the tooltip reads properties.created_at of every node that is
\* not a tag.
getNodeTooltipStrict(node) ==
    IF node.node_type = "tag"
    THEN << "Tag: ", node.label >>
    ELSE IF node.properties = UNDEF
         THEN THROWN
         ELSE << "Title: ", node.label, "Created: ", node.properties >>

\* getNodeTooltip(node): reading node.properties.created_at throws when the
\* record has no properties; only the diary branch reads it.
getNodeTooltip(node) ==
    IF node.node_type = "diary"
    THEN IF node.properties = UNDEF
         THEN THROWN
         ELSE << "Title: ", node.label, "Created: ", node.properties >>
    ELSE << "Tag: ", node.label >>

ProcessNode(node) ==
    [id |-> node.id, label |-> node.label, group |-> node.node_type,
     node_type |-> node.node_type, title |-> getNodeTooltip(node)]

\* One render-ready edge per backend edge record: from/to carry the
\* direction, "source"/"target" are not fields of a processed edge.
ProcessEdge(edge) ==
    [id |-> edge.id, from |-> edge.source, to |-> edge.target,
     source |-> UNDEF, target |-> UNDEF]

ProcessNodes(nodes) == [i \in 1..Len(nodes) |-> ProcessNode(nodes[i])]

ProcessEdges(edges) == [i \in 1..Len(edges) |-> ProcessEdge(edges[i])]

\* data.nodes.map(...) throws when getNodeTooltip throws for one record.
MapThrows(nodes) == \E i \in 1..Len(nodes) : getNodeTooltip(nodes[i]) = THROWN

\* ------------------------------------------------------------ vis DataSet
\* A DataSet holds at most one item per id; it is modelled as the set of
\* its items.
\* new vis.DataSet(items)
DataSetOf(items) ==
    { items[i] : i \in { k \in 1..Len(items) :
                            \A j \in (k + 1)..Len(items) : items[j].id # items[k].id } }

\* Variant: remove leaves the set as it is.
DataSetRemoveNothing(ds, ids) == ds

\* dataset.remove(ids): ids that are not in the set are ignored.
DataSetRemove(ds, ids) == { r \in ds : r.id \notin ids }

\* dataset.update(items): every item replaces the item of its id or is added.
DataSetUpdate(ds, items) == DataSetRemove(ds, Ids(items)) \cup DataSetOf(items)

\* Variant: add drops the item.
DataSetAddNothing(ds, item) == ds

\* dataset.add(item) for an id the set does not hold.
DataSetAdd(ds, item) == ds \cup { item }

\* ------------------------------------------------------------------- state
VARIABLES
    graphData,              \* the mirror { nodes, edges }, two arrays
    nodesDataset,           \* render surface: items of the node DataSet
    edgesDataset,           \* render surface: items of the edge DataSet
    network,                \* nodesDataset && edgesDataset && network
    canvasAttached,         \* the canvas the network was built on is rendered
    loading,
    error,
    isCreatingRelationship,
    hasSelectedFirstNode,
    selectedNodeId,
    selectedEdge,
    statusMessage,
    nextUuid,               \* index of the next id uuidv4 returns
    backend,                \* the graph the backend holds { nodes, edges }
    requests,               \* requests made after the initial load
    fetches,                \* get_graph_data requests in flight
    creates,                \* add_relationship requests in flight
    deletes,                \* delete_relationship requests in flight
    lastOp,                 \* the handler (or backend change) that ran last
                            \* and the event it dispatched
    manager,                \* the RelationshipManager component
    editor                  \* the Editor component

vars == << graphData, nodesDataset, edgesDataset, network, canvasAttached,
           loading, error, isCreatingRelationship, hasSelectedFirstNode,
           selectedNodeId, selectedEdge, statusMessage, nextUuid, backend,
           requests, fetches, creates, deletes, lastOp, manager, editor >>

\* The components beside the graph view.
otherViews == << manager, editor >>

\* The graph view.
graphView == << graphData, nodesDataset, edgesDataset, network, canvasAttached,
                loading, error, isCreatingRelationship, hasSelectedFirstNode,
                selectedNodeId, selectedEdge, statusMessage, nextUuid, backend,
                requests, fetches, creates, deletes, lastOp >>

mirrorVars == << graphData, nodesDataset, edgesDataset, network >>

selectionVars == << isCreatingRelationship, hasSelectedFirstNode,
                    selectedNodeId, selectedEdge >>

requestVars == << fetches, creates, deletes >>

\* arg: the node, edge or relationship id the handler was about, or the
\* detail of the event it dispatched.
OpOn(name, event, arg) == [op |-> name, event |-> event, arg |-> arg]

Op(name, event) == OpOn(name, event, NULL)

\* The relationships created by this component that a graph holds.
CreatedIn(graph) == Ids(graph.edges) \cap Range(UuidPool)

\* A get_graph_data request in flight: the function that awaits it, the
\* answer the backend has computed for it (empty while it has computed none)
\* and, for the record, the created relationships the backend held when the
\* request was made.
FetchTaskAt(kind, showLoading, graph) ==
    [kind |-> kind, showLoading |-> showLoading, snap |-> << >>,
     known |-> CreatedIn(graph)]

FetchTask(kind, showLoading) == FetchTaskAt(kind, showLoading, backend)

\* The {#if loading} / {:else if error} / {:else} blocks of the template:
\* the controls and the canvas exist only in the last one.
ControlsRendered == ~loading /\ error = NULL

\* The canvas element is destroyed as soon as loading or error hides it; a
\* canvas rendered again later is a new element the network is not built on.
CanvasAfter(attached, loadingNow, errorNow) ==
    attached /\ ~loadingNow /\ errorNow = NULL

\* ------------------------------------------------------ RelationshipManager
\* The props of the component: the diary it is shown for and the diaries of
\* the application.
diaryId == "d1"

diaries == << "d1", "d2", "d3" >>

\* The <option> values of the two diary selects: "" ("Select ... diary") and
\* every diary but diaryId.
DiaryOptions == { "" } \cup { d \in Range(diaries) : d # diaryId }

\* The requests the component may make after it is mounted.
MaxManagerRequests == 2

\* A relationship as get_relationships returns it.
Relationship(id, parent_id, child_id) ==
    [id |-> id, parent_id |-> parent_id, child_id |-> child_id]

\* The ids the backend gives the relationships it stores.
StoredIdPool == << "s2", "s3", "s4" >>

\* The relationships the backend holds when the component is mounted.
InitialStored == << Relationship("s1", "d2", "d1") >>

\* get_relationships({ diary_id }): the stored relationships of that diary.
GetRelationships(stored, diary) ==
    SelectSeq(stored, LAMBDA r : r.parent_id = diary \/ r.child_id = diary)

\* A request the component awaits; none while kind is "idle".
ManagerTask(kind, id, parent_id, child_id) ==
    [kind |-> kind, id |-> id, parent_id |-> parent_id, child_id |-> child_id]

ManagerIdle == ManagerTask("idle", "", "", "")

\* The component when "$: if (diaryId) loadRelationships()" has run: the
\* first get_relationships is in flight.
ManagerMounted ==
    [relationships |-> << >>, isCreating |-> FALSE, selectedParentId |-> "",
     selectedChildId |-> "", relationshipType |-> "depends_on",
     isLoading |-> TRUE, error |-> NULL,
     task |-> ManagerTask("load", "", "", ""),
     stored |-> InitialStored, requests |-> 0, event |-> "none"]

\* loadRelationships after get_relationships has resolved or was rejected:
\* the mount-time call.
ManagerLoadOk ==
    /\ manager.task.kind = "load"
    /\ manager' = [manager EXCEPT
                      !.relationships = GetRelationships(manager.stored, diaryId),
                      !.isLoading = FALSE,
                      !.task = ManagerIdle,
                      !.event = "none"]

ManagerLoadFail ==
    /\ manager.task.kind = "load"
    /\ manager' = [manager EXCEPT
                      !.error = "Failed to load relationships",
                      !.isLoading = FALSE,
                      !.task = ManagerIdle,
                      !.event = "none"]

\* The "Create Relationship" button (disabled while isLoading).
ManagerOpenForm ==
    /\ ~manager.isLoading
    /\ ~manager.isCreating
    /\ manager' = [manager EXCEPT !.isCreating = TRUE, !.event = "none"]

\* The "Cancel" button of the form (disabled while isLoading).
ManagerCancelForm ==
    /\ manager.isCreating
    /\ ~manager.isLoading
    /\ manager' = [manager EXCEPT !.isCreating = FALSE, !.event = "none"]

\* <select bind:value={selectedParentId}>
ManagerSelectParent(value) ==
    /\ manager.isCreating
    /\ value \in DiaryOptions
    /\ value # manager.selectedParentId
    /\ manager' = [manager EXCEPT !.selectedParentId = value, !.event = "none"]

\* <select bind:value={selectedChildId}>
ManagerSelectChild(value) ==
    /\ manager.isCreating
    /\ value \in DiaryOptions
    /\ value # manager.selectedChildId
    /\ manager' = [manager EXCEPT !.selectedChildId = value, !.event = "none"]

\* The guard of createRelationship:
\* !(!selectedParentId || !selectedChildId || !relationshipType)
CreateGuard(parent_id, child_id, type) ==
    parent_id # "" /\ child_id # "" /\ type # ""

\* createRelationship up to its first await: the "Create" button of the form
\* (disabled while isLoading).
ManagerCreateRelationship ==
    /\ manager.isCreating
    /\ ~manager.isLoading
    /\ IF ~CreateGuard(manager.selectedParentId, manager.selectedChildId,
                       manager.relationshipType)
       THEN manager' = [manager EXCEPT
                           !.error = "Please select both parent and child diaries",
                           !.event = "none"]
       ELSE /\ manager.requests < MaxManagerRequests
            /\ manager' = [manager EXCEPT
                              !.isLoading = TRUE,
                              !.requests = @ + 1,
                              !.task = ManagerTask("add", "",
                                                   manager.selectedParentId,
                                                   manager.selectedChildId),
                              !.event = "none"]

\* add_relationship resolved: createRelationship goes on to await
\* loadRelationships, which sets isLoading and calls get_relationships.
ManagerAddOk ==
    /\ manager.task.kind = "add"
    /\ manager' = [manager EXCEPT
                      !.stored = Append(@, Relationship(
                                               StoredIdPool[manager.requests],
                                               manager.task.parent_id,
                                               manager.task.child_id)),
                      !.isLoading = TRUE,
                      !.task = ManagerTask("reloadAfterAdd", "", "", ""),
                      !.event = "none"]

\* add_relationship rejected: the catch and finally blocks.
ManagerAddFail ==
    /\ manager.task.kind = "add"
    /\ manager' = [manager EXCEPT
                      !.error = "Failed to create relationship",
                      !.isLoading = FALSE,
                      !.task = ManagerIdle,
                      !.event = "none"]

\* The rest of createRelationship once loadRelationships has returned (it
\* catches its own failure): the event, the form reset, the finally block.
ManagerReloadAfterAdd(ok) ==
    /\ manager.task.kind = "reloadAfterAdd"
    /\ manager' = [manager EXCEPT
                      !.relationships =
                          IF ok THEN GetRelationships(manager.stored, diaryId)
                          ELSE @,
                      !.error = IF ok THEN @ ELSE "Failed to load relationships",
                      !.isCreating = FALSE,
                      !.selectedParentId = "",
                      !.selectedChildId = "",
                      !.relationshipType = "depends_on",
                      !.isLoading = FALSE,
                      !.task = ManagerIdle,
                      !.event = "relationshipCreated"]

\* deleteRelationship(id) up to its first await: the button of a listed
\* relationship (the list is rendered while not isLoading).
ManagerDeleteRelationship(id) ==
    /\ ~manager.isLoading
    /\ id \in Ids(manager.relationships)
    /\ manager.requests < MaxManagerRequests
    /\ manager' = [manager EXCEPT
                      !.isLoading = TRUE,
                      !.requests = @ + 1,
                      !.task = ManagerTask("delete", id, "", ""),
                      !.event = "none"]

\* delete_relationship resolved: deleteRelationship awaits loadRelationships.
ManagerDeleteOk ==
    /\ manager.task.kind = "delete"
    /\ manager' = [manager EXCEPT
                      !.stored = FilterOutIds(@, { manager.task.id }),
                      !.isLoading = TRUE,
                      !.task = ManagerTask("reloadAfterDelete", "", "", ""),
                      !.event = "none"]

\* delete_relationship rejected: the catch and finally blocks.
ManagerDeleteFail ==
    /\ manager.task.kind = "delete"
    /\ manager' = [manager EXCEPT
                      !.error = "Failed to delete relationship",
                      !.isLoading = FALSE,
                      !.task = ManagerIdle,
                      !.event = "none"]

\* The rest of deleteRelationship once loadRelationships has returned.
ManagerReloadAfterDelete(ok) ==
    /\ manager.task.kind = "reloadAfterDelete"
    /\ manager' = [manager EXCEPT
                      !.relationships =
                          IF ok THEN GetRelationships(manager.stored, diaryId)
                          ELSE @,
                      !.error = IF ok THEN @ ELSE "Failed to load relationships",
                      !.isLoading = FALSE,
                      !.task = ManagerIdle,
                      !.event = "relationshipDeleted"]

\* ------------------------------------------------------------------ Editor
\* The titles the user types: empty, blank, and three that differ in more
\* than case or only in case.
Titles == { "", " ", "Monday", "monday", "Notes" }

\* The content of the textarea, the tags included.
Contents == { "", "text" }

\* String.prototype.trim
Trim(t) == IF t = " " THEN "" ELSE t

\* String.prototype.toLowerCase
ToLowerCase(t) == IF t = "Monday" THEN "monday" ELSE t

\* A diary as list_diaries returns it.
Diary(id, title) == [id |-> id, title |-> title]

\* The diaries the backend holds when the editor is mounted.
InitialDiaries == << Diary("d1", "Monday") >>

\* The ids save_diary gives new diaries.
DiaryIdPool == << "n1", "n2", "n3" >>

\* The save requests the editor may make.
MaxSaves == 2

\* The entry prop: a new entry, or the stored diary d1.
NewEntry == [id |-> "", title |-> "", content |-> ""]

StoredEntry == [id |-> "d1", title |-> "Monday", content |-> "text"]

\* The second reactive block: hasUnsavedChanges from title, content and entry.
UnsavedChanges(entry, title, content) ==
    IF entry.id # ""
    THEN title # entry.title \/ content # entry.content
    ELSE Trim(title) # "" \/ Trim(content) # ""

\* A request saveEntry awaits; none while kind is "idle".  For save_diary,
\* id, title and content are its arguments (id "" stands for null).
EditorTask(kind, id, title, content) ==
    [kind |-> kind, id |-> id, title |-> title, content |-> content]

EditorIdle == EditorTask("idle", "", "", "")

\* The component once its two reactive blocks have run for the entry prop.
EditorMounted(entry) ==
    [entry |-> entry, isNew |-> (entry.id = ""), title |-> entry.title,
     content |-> entry.content, isSaving |-> FALSE, saveStatus |-> "",
     hasUnsavedChanges |-> FALSE, task |-> EditorIdle,
     stored |-> InitialDiaries, saves |-> 0, event |-> "none"]

\* <input bind:value={title}>, followed by the second reactive block.
EditorSetTitle(t) ==
    /\ t \in Titles
    /\ t # editor.title
    /\ editor' = [editor EXCEPT
                     !.title = t,
                     !.hasUnsavedChanges =
                         UnsavedChanges(editor.entry, t, editor.content),
                     !.event = "none"]

\* <textarea bind:value={content}>, followed by the second reactive block.
EditorSetContent(c) ==
    /\ c \in Contents
    /\ c # editor.content
    /\ editor' = [editor EXCEPT
                     !.content = c,
                     !.hasUnsavedChanges =
                         UnsavedChanges(editor.entry, editor.title, c),
                     !.event = "none"]

\* saveEntry up to its first await: the "Save" button (disabled while
\* isSaving).  A new entry awaits list_diaries, another one save_diary.
EditorSaveEntry ==
    /\ ~editor.isSaving
    /\ IF Trim(editor.title) = ""
       THEN editor' = [editor EXCEPT !.saveStatus = "Please add a title",
                                     !.event = "none"]
       ELSE IF ~editor.hasUnsavedChanges
       THEN editor' = [editor EXCEPT !.saveStatus = "No changes to save",
                                     !.event = "none"]
       ELSE /\ editor.saves < MaxSaves
            /\ editor' = [editor EXCEPT
                             !.isSaving = TRUE,
                             !.saves = @ + 1,
                             !.task = IF editor.isNew
                                      THEN EditorTask("list_diaries", "", "", "")
                                      ELSE EditorTask("save_diary",
                                                      editor.entry.id,
                                                      editor.title,
                                                      editor.content),
                             !.event = "none"]

\* existingDiaries.some(diary => diary.title.toLowerCase() ===
\*     title.toLowerCase() && diary.id !== entry.id)
TitleExists(existingDiaries, title, entryId) ==
    \E i \in 1..Len(existingDiaries) :
        /\ ToLowerCase(existingDiaries[i].title) = ToLowerCase(title)
        /\ existingDiaries[i].id # entryId

\* list_diaries resolved: the title check, made with the title the input
\* holds now, and either the early return (with the finally block) or the
\* save_diary call.
EditorListOk ==
    /\ editor.task.kind = "list_diaries"
    /\ IF TitleExists(editor.stored, editor.title, editor.entry.id)
       THEN editor' = [editor EXCEPT
                          !.saveStatus = "Title already exists",
                          !.isSaving = FALSE,
                          !.task = EditorIdle,
                          !.event = "none"]
       ELSE editor' = [editor EXCEPT
                          !.task = EditorTask("save_diary", editor.entry.id,
                                              editor.title, editor.content),
                          !.event = "none"]

\* list_diaries or save_diary rejected: the catch and finally blocks.
EditorFail ==
    /\ editor.task.kind \in { "list_diaries", "save_diary" }
    /\ editor' = [editor EXCEPT
                     !.saveStatus = "Error saving",
                     !.isSaving = FALSE,
                     !.task = EditorIdle,
                     !.event = "none"]

\* save_diary(id, title, content, tags) in the backend: a new diary for a
\* null id, the diary of that id replaced otherwise.
SaveDiary(stored, id, task) ==
    IF task.id = ""
    THEN Append(stored, Diary(id, task.title))
    ELSE [i \in 1..Len(stored) |->
              IF stored[i].id = id THEN Diary(id, task.title) ELSE stored[i]]

\* save_diary resolved.  For a new entry "entry.id = id" invalidates entry,
\* so the first reactive block runs again: title and content are taken from
\* entry, isNew is !entry.id, hasUnsavedChanges is false.
EditorSaveOk ==
    /\ editor.task.kind = "save_diary"
    /\ LET id == IF editor.task.id = "" THEN DiaryIdPool[editor.saves]
                 ELSE editor.task.id
           stored == SaveDiary(editor.stored, id, editor.task)
       IN  IF editor.isNew
           THEN editor' = [editor EXCEPT
                              !.stored = stored,
                              !.saveStatus = "Saved",
                              !.hasUnsavedChanges = FALSE,
                              !.isNew = FALSE,
                              !.entry = [@ EXCEPT !.id = id],
                              !.title = editor.entry.title,
                              !.content = editor.entry.content,
                              !.isSaving = FALSE,
                              !.task = EditorIdle,
                              !.event = "saved"]
           ELSE editor' = [editor EXCEPT
                              !.stored = stored,
                              !.saveStatus = "Saved",
                              !.hasUnsavedChanges = FALSE,
                              !.isSaving = FALSE,
                              !.task = EditorIdle,
                              !.event = "none"]

\* ------------------------------------------------------------- GraphCanvas
\* The graph view when script.onload has called loadGraphData.
GraphCanvasMounted ==
    /\ graphData = [nodes |-> << >>, edges |-> << >>]
    /\ nodesDataset = {}
    /\ edgesDataset = {}
    /\ network = FALSE
    /\ canvasAttached = FALSE
    /\ loading = TRUE
    /\ error = NULL
    /\ isCreatingRelationship = FALSE
    /\ hasSelectedFirstNode = FALSE
    /\ selectedNodeId = NULL
    /\ selectedEdge = NULL
    /\ statusMessage = NULL
    /\ nextUuid = 1
    /\ backend = InitialBackend
    /\ requests = 0
    /\ fetches = << FetchTask("load", FALSE) >>
    /\ creates = << >>
    /\ deletes = << >>
    /\ lastOp = Op("mount", "none")

\* The graph view right after it is mounted; the two other components are
\* not mounted (NULL).
Init ==
    /\ GraphCanvasMounted
    /\ manager = NULL
    /\ editor = NULL

\* ------------------------------------------------------------------ backend
\* A request is answered from the graph the backend holds when its response
\* is delivered: the answer and the handler that receives it are one step.
\* get_graph_data: the node and edge records of the whole graph.
GetGraphData == backend

\* The backend computes the answer of a get_graph_data request; the
\* response is delivered to the component later, and the graph may change
\* in between.
AnswerGetGraphData(i) ==
    /\ fetches[i].snap = << >>
    /\ fetches' = [fetches EXCEPT ![i].snap = << GetGraphData >>]
    /\ UNCHANGED << mirrorVars, canvasAttached, loading, error, selectionVars,
                    statusMessage, nextUuid, backend, requests, creates,
                    deletes, lastOp >>

\* The data a get_graph_data call resolves with: the answer computed
\* earlier, or the graph as it is when answer and delivery are one step.
Snapshot(task) == IF task.snap = << >> THEN GetGraphData ELSE task.snap[1]

\* add_relationship { id, parentId, childId }: the relationship is stored
\* with source = child and target = parent.
AddRelationship(graph, params) ==
    IF params.id \in Ids(graph.edges)
    THEN graph
    ELSE [graph EXCEPT
             !.edges = Append(@, BackendEdge(params.id, params.childId,
                                             params.parentId))]

\* delete_relationship { id }
DeleteRelationship(graph, id) ==
    [graph EXCEPT !.edges = FilterOutIds(@, { id })]

\* ------------------------------------------------------------ loadGraphData
\* initializeNetwork, called by script.onload right after loadGraphData: it
\* needs the canvas element, which is rendered when neither loading nor
\* error hides it.
ContainerBound(loadingNow, errorNow) == ~loadingNow /\ errorNow = NULL

\* loadGraphData after get_graph_data has resolved, followed by
\* initializeNetwork.
LoadGraphDataOk(i) ==
    /\ fetches[i].kind = "load"
    /\ ~MapThrows(Snapshot(fetches[i]).nodes)
    /\ LET data == Snapshot(fetches[i])
           processedNodes == ProcessNodes(data.nodes)
           processedEdges == ProcessEdges(data.edges)
           init == ~network /\ ContainerBound(FALSE, error)
       IN  /\ graphData' = [nodes |-> processedNodes, edges |-> processedEdges]
           /\ nodesDataset' = IF network \/ init THEN DataSetOf(processedNodes)
                              ELSE nodesDataset
           /\ edgesDataset' = IF network \/ init THEN DataSetOf(processedEdges)
                              ELSE edgesDataset
           /\ network' = (network \/ init)
           /\ canvasAttached' = (init \/ CanvasAfter(canvasAttached, FALSE, error))
    /\ loading' = FALSE
    /\ fetches' = RemoveAt(fetches, i)
    /\ lastOp' = Op("loadGraphDataOk", "none")
    /\ UNCHANGED << error, selectionVars, statusMessage, nextUuid, backend,
                    requests, creates, deletes >>

\* loadGraphData when get_graph_data is rejected or the mapping throws: the
\* catch block.
LoadGraphDataFail(i) ==
    /\ fetches[i].kind = "load"
    /\ error' = "Failed to load graph data"
    /\ loading' = FALSE
    /\ canvasAttached' = CanvasAfter(canvasAttached, FALSE, error')
    /\ fetches' = RemoveAt(fetches, i)
    /\ lastOp' = Op("loadGraphDataFail", "none")
    /\ UNCHANGED << graphData, nodesDataset, edgesDataset, network,
                    selectionVars, statusMessage, nextUuid, backend,
                    requests, creates, deletes >>

\* -------------------------------------------------------------- updateGraph
\* Variant: nothing is removed before the update.
IdsToRemoveNone(currentIds, newIds) == {}

\* Variant: every current item is removed before the update adds the new
\* ones (clear and refill).
IdsToRemoveAll(currentIds, newIds) == currentIds

\* currentIds.filter(id => !newIds.includes(id))
IdsToRemove(currentIds, newIds) == currentIds \ newIds

\* Variant: the processed items are added beside the items the set holds
\* instead of replacing them.
RefreshDatasetAdd(ds, processed) ==
    DataSetRemove(ds, IdsToRemove(SetIds(ds), Ids(processed)))
        \cup DataSetOf(processed)

\* Remove deleted items first, then update/add the processed items.
RefreshDataset(ds, processed) ==
    DataSetUpdate(DataSetRemove(ds, IdsToRemove(SetIds(ds), Ids(processed))),
                  processed)

\* One call on a DataSet: remove(ids) or update(items).
RemoveCall(target, ids) ==
    [target |-> target, call |-> "remove", ids |-> ids, items |-> << >>]

UpdateCall(target, items) ==
    [target |-> target, call |-> "update", ids |-> {}, items |-> items]

\* Variant: the two updates come before the two removals.
RefreshCallsUpsertFirst(nodes, edges, processedNodes, processedEdges) ==
    LET nodesToRemove == IdsToRemove(SetIds(nodes), Ids(processedNodes))
        edgesToRemove == IdsToRemove(SetIds(edges), Ids(processedEdges))
    IN  << UpdateCall("nodes", processedNodes) >>
        \o << UpdateCall("edges", processedEdges) >>
        \o (IF nodesToRemove # {}
            THEN << RemoveCall("nodes", nodesToRemove) >> ELSE << >>)
        \o (IF edgesToRemove # {}
            THEN << RemoveCall("edges", edgesToRemove) >> ELSE << >>)

\* The DataSet calls of one refresh, in program order: the two removals
\* (each skipped when it has nothing to remove), then the two updates.
RefreshCalls(nodes, edges, processedNodes, processedEdges) ==
    LET nodesToRemove == IdsToRemove(SetIds(nodes), Ids(processedNodes))
        edgesToRemove == IdsToRemove(SetIds(edges), Ids(processedEdges))
    IN  (IF nodesToRemove # {}
         THEN << RemoveCall("nodes", nodesToRemove) >> ELSE << >>)
        \o (IF edgesToRemove # {}
            THEN << RemoveCall("edges", edgesToRemove) >> ELSE << >>)
        \o << UpdateCall("nodes", processedNodes) >>
        \o << UpdateCall("edges", processedEdges) >>

\* The two DataSets after one call.
ApplyCall(surface, c) ==
    LET ds == IF c.target = "nodes" THEN surface.nodes ELSE surface.edges
        after == IF c.call = "remove" THEN DataSetRemove(ds, c.ids)
                 ELSE DataSetUpdate(ds, c.items)
    IN  IF c.target = "nodes" THEN [surface EXCEPT !.nodes = after]
        ELSE [surface EXCEPT !.edges = after]

\* The two DataSets after the first n calls of the list.
RECURSIVE ApplyCalls(_, _, _)
ApplyCalls(surface, calls, n) ==
    IF n = 0 THEN surface
    ELSE ApplyCall(ApplyCalls(surface, calls, n - 1), calls[n])

\* updateGraph(showLoading) up to its await: called by the host view, and
\* by deleteSelectedEdge without showLoading.
IssueUpdateGraphAt(showLoading, graph) ==
    /\ loading' = (IF showLoading THEN TRUE ELSE loading)
    /\ canvasAttached' = CanvasAfter(canvasAttached, loading', error)
    /\ fetches' = Append(fetches, FetchTaskAt("update", showLoading, graph))

IssueUpdateGraph(showLoading) == IssueUpdateGraphAt(showLoading, backend)

HostUpdateGraph(showLoading) ==
    /\ requests < MaxRequests
    /\ requests' = requests + 1
    /\ IssueUpdateGraph(showLoading)
    /\ lastOp' = Op("updateGraph", "none")
    /\ UNCHANGED << graphData, nodesDataset, edgesDataset, network, error,
                    selectionVars, statusMessage, nextUuid, backend, creates,
                    deletes >>

\* Variant: a refresh that succeeds clears the error.
UpdateGraphOkClearingError(i) ==
    /\ fetches[i].kind = "update"
    /\ ~MapThrows(Snapshot(fetches[i]).nodes)
    /\ LET data == Snapshot(fetches[i])
           processedNodes == ProcessNodes(data.nodes)
           processedEdges == ProcessEdges(data.edges)
       IN  /\ nodesDataset' = IF network
                              THEN RefreshDataset(nodesDataset, processedNodes)
                              ELSE nodesDataset
           /\ edgesDataset' = IF network
                              THEN RefreshDataset(edgesDataset, processedEdges)
                              ELSE edgesDataset
           /\ graphData' = [nodes |-> processedNodes, edges |-> processedEdges]
    /\ loading' = (IF fetches[i].showLoading THEN FALSE ELSE loading)
    /\ canvasAttached' = CanvasAfter(canvasAttached, loading', error)
    /\ fetches' = RemoveAt(fetches, i)
    /\ lastOp' = Op("updateGraphOk", "none")
    /\ error' = NULL
    /\ UNCHANGED << network, selectionVars, statusMessage, nextUuid,
                    backend, requests, creates, deletes >>

\* updateGraph after get_graph_data has resolved.
UpdateGraphOk(i) ==
    /\ fetches[i].kind = "update"
    /\ ~MapThrows(Snapshot(fetches[i]).nodes)
    /\ LET data == Snapshot(fetches[i])
           processedNodes == ProcessNodes(data.nodes)
           processedEdges == ProcessEdges(data.edges)
       IN  /\ nodesDataset' = IF network
                              THEN RefreshDataset(nodesDataset, processedNodes)
                              ELSE nodesDataset
           /\ edgesDataset' = IF network
                              THEN RefreshDataset(edgesDataset, processedEdges)
                              ELSE edgesDataset
           /\ graphData' = [nodes |-> processedNodes, edges |-> processedEdges]
    /\ loading' = (IF fetches[i].showLoading THEN FALSE ELSE loading)
    /\ canvasAttached' = CanvasAfter(canvasAttached, loading', error)
    /\ fetches' = RemoveAt(fetches, i)
    /\ lastOp' = Op("updateGraphOk", "none")
    /\ UNCHANGED << network, error, selectionVars, statusMessage, nextUuid,
                    backend, requests, creates, deletes >>

\* Variant: the catch block also empties the mirror.
UpdateGraphFailWipe(i) ==
    /\ fetches[i].kind = "update"
    /\ error' = "Failed to update graph"
    /\ loading' = (IF fetches[i].showLoading THEN FALSE ELSE loading)
    /\ canvasAttached' = CanvasAfter(canvasAttached, loading', error')
    /\ fetches' = RemoveAt(fetches, i)
    /\ graphData' = [nodes |-> << >>, edges |-> << >>]
    /\ lastOp' = Op("updateGraphFail", "none")
    /\ UNCHANGED << nodesDataset, edgesDataset, network, selectionVars,
                    statusMessage, nextUuid, backend, requests, creates,
                    deletes >>

\* updateGraph when get_graph_data is rejected or the mapping throws: the
\* catch and finally blocks.
UpdateGraphFail(i) ==
    /\ fetches[i].kind = "update"
    /\ error' = "Failed to update graph"
    /\ loading' = (IF fetches[i].showLoading THEN FALSE ELSE loading)
    /\ canvasAttached' = CanvasAfter(canvasAttached, loading', error')
    /\ fetches' = RemoveAt(fetches, i)
    /\ lastOp' = Op("updateGraphFail", "none")
    /\ UNCHANGED << graphData, nodesDataset, edgesDataset, network,
                    selectionVars, statusMessage, nextUuid, backend,
                    requests, creates, deletes >>

\* ------------------------------------------------- relationship workflow
\* Variant: starting keeps the selected edge.
StartKeepingEdge ==
    /\ ControlsRendered
    /\ ~isCreatingRelationship
    /\ selectedNodeId' = NULL
    /\ hasSelectedFirstNode' = FALSE
    /\ isCreatingRelationship' = TRUE
    /\ statusMessage' = "Click on the first node (child/son/daughter)"
    /\ lastOp' = Op("startCreatingRelationship", "none")
    /\ UNCHANGED << mirrorVars, canvasAttached, loading, error, selectedEdge,
                    nextUuid, backend, requests, requestVars >>

\* The "Create Relationship" button (disabled while isCreatingRelationship).
StartCreatingRelationship ==
    /\ ControlsRendered
    /\ ~isCreatingRelationship
    /\ selectedNodeId' = NULL
    /\ hasSelectedFirstNode' = FALSE
    /\ selectedEdge' = NULL
    /\ isCreatingRelationship' = TRUE
    /\ statusMessage' = "Click on the first node (child/son/daughter)"
    /\ lastOp' = Op("startCreatingRelationship", "none")
    /\ UNCHANGED << mirrorVars, canvasAttached, loading, error, nextUuid,
                    backend, requests, requestVars >>

\* Variant: cancelling also drops the create requests in flight.
CancelDroppingRequests ==
    /\ ControlsRendered
    /\ isCreatingRelationship
    /\ isCreatingRelationship' = FALSE
    /\ hasSelectedFirstNode' = FALSE
    /\ selectedNodeId' = NULL
    /\ statusMessage' = NULL
    /\ creates' = << >>
    /\ lastOp' = Op("cancelCreatingRelationship", "none")
    /\ UNCHANGED << mirrorVars, canvasAttached, loading, error, selectedEdge,
                    nextUuid, backend, requests, fetches, deletes >>

\* Variant: cancelling leaves the pending child.
CancelKeepingChild ==
    /\ ControlsRendered
    /\ isCreatingRelationship
    /\ isCreatingRelationship' = FALSE
    /\ statusMessage' = NULL
    /\ lastOp' = Op("cancelCreatingRelationship", "none")
    /\ UNCHANGED << mirrorVars, canvasAttached, loading, error, selectedEdge,
                    hasSelectedFirstNode, selectedNodeId, nextUuid, backend,
                    requests, requestVars >>

\* The "Cancel" button (rendered while isCreatingRelationship).
CancelCreatingRelationship ==
    /\ ControlsRendered
    /\ isCreatingRelationship
    /\ isCreatingRelationship' = FALSE
    /\ hasSelectedFirstNode' = FALSE
    /\ selectedNodeId' = NULL
    /\ statusMessage' = NULL
    /\ lastOp' = Op("cancelCreatingRelationship", "none")
    /\ UNCHANGED << mirrorVars, canvasAttached, loading, error, selectedEdge,
                    nextUuid, backend, requests, requestVars >>

\* graphData.nodes.find(n => n.id === id)
NodeInMirror(id) == \E i \in 1..Len(graphData.nodes) : graphData.nodes[i].id = id

FindNode(id) ==
    graphData.nodes[CHOOSE i \in 1..Len(graphData.nodes) :
                        /\ graphData.nodes[i].id = id
                        /\ \A j \in 1..(i - 1) : graphData.nodes[j].id # id]

\* Variant: every node passes the diary test.
IsDiaryNodeAny(node) == TRUE

\* A processed node has no "properties" field, so the third test of the
\* source (created_at in node.properties) is false for every mirror node.
IsDiaryNode(node) == node.group = "diary" \/ node.node_type = "diary"

IsTagNode(node) == node.group = "tag" \/ node.node_type = "tag"

\* Variant: the second click is not compared with the first.
IsSecondSelectionAny(clickedNodeId) == TRUE

\* The "second selection" branch: else if (selectedNodeId !== clickedNodeId).
IsSecondSelection(clickedNodeId) == selectedNodeId # clickedNodeId

\* The "triple check" of an id: a non-empty string.
ValidId(id) == id # NULL /\ id # UNDEF /\ id # ""

\* The params object of add_relationship: the clicked (second) node is the
\* parent, the first node the child.
CreateParams(relationshipId, clickedNodeId, firstNodeId) ==
    [id |-> relationshipId, parentId |-> clickedNodeId, childId |-> firstNodeId]

\* newEdge, the item added to edgesDataset.
NewEdge(params) ==
    [id |-> params.id, from |-> params.parentId, to |-> params.childId,
     source |-> UNDEF, target |-> UNDEF]

\* The object pushed to graphData.edges: it has source/target, not from/to.
PushedEdge(params) ==
    [id |-> params.id, from |-> UNDEF, to |-> UNDEF,
     source |-> params.parentId, target |-> params.childId]

CreateTask(params) ==
    [id |-> params.id, parentId |-> params.parentId, childId |-> params.childId,
     stage |-> "timer"]

\* Variant: the edge branch leaves the pending child.
ClickEdgeKeepChild(edgeId) ==
    /\ selectedEdge' = edgeId
    /\ lastOp' = OpOn("clickEdge", "none", edgeId)
    /\ UNCHANGED << mirrorVars, canvasAttached, loading, error,
                    isCreatingRelationship, hasSelectedFirstNode,
                    selectedNodeId, statusMessage, nextUuid, backend,
                    requests, requestVars >>

\* A click that hit an edge.
ClickEdge(edgeId) ==
    /\ selectedEdge' = edgeId
    /\ selectedNodeId' = NULL
    /\ hasSelectedFirstNode' = FALSE
    /\ lastOp' = OpOn("clickEdge", "none", edgeId)
    /\ UNCHANGED << mirrorVars, canvasAttached, loading, error,
                    isCreatingRelationship, statusMessage, nextUuid, backend,
                    requests, requestVars >>

\* Variant: empty space clears the pending child in every mode.
ClickEmptyClearAll ==
    /\ selectedEdge' = NULL
    /\ selectedNodeId' = NULL
    /\ hasSelectedFirstNode' = FALSE
    /\ lastOp' = Op("clickEmpty", "none")
    /\ UNCHANGED << mirrorVars, canvasAttached, loading, error,
                    isCreatingRelationship, statusMessage, nextUuid, backend,
                    requests, requestVars >>

\* A click on empty space.
ClickEmpty ==
    /\ selectedEdge' = NULL
    /\ selectedNodeId' = (IF ~isCreatingRelationship THEN NULL ELSE selectedNodeId)
    /\ hasSelectedFirstNode' =
           (IF ~isCreatingRelationship THEN FALSE ELSE hasSelectedFirstNode)
    /\ lastOp' = Op("clickEmpty", "none")
    /\ UNCHANGED << mirrorVars, canvasAttached, loading, error,
                    isCreatingRelationship, statusMessage, nextUuid, backend,
                    requests, requestVars >>

\* Variant: the first selection sets the flag and records no node.
SelectFirstNodeForget(clickedNodeId) ==
    /\ selectedNodeId' = NULL
    /\ hasSelectedFirstNode' = TRUE
    /\ statusMessage' = NULL
    /\ lastOp' = OpOn("firstSelection", "none", clickedNodeId)
    /\ UNCHANGED << mirrorVars, canvasAttached, loading, error,
                    isCreatingRelationship, selectedEdge, nextUuid, backend,
                    requests, requestVars >>

\* First selection: the clicked diary node becomes the pending child.
SelectFirstNode(clickedNodeId) ==
    /\ selectedNodeId' = clickedNodeId
    /\ hasSelectedFirstNode' = TRUE
    /\ statusMessage' = NULL
    /\ lastOp' = OpOn("firstSelection", "none", clickedNodeId)
    /\ UNCHANGED << mirrorVars, canvasAttached, loading, error,
                    isCreatingRelationship, selectedEdge, nextUuid, backend,
                    requests, requestVars >>

\* Variant: the selection is left as it is.
ResetRelationshipStateSkip == UNCHANGED << hasSelectedFirstNode, selectedNodeId >>

\* resetRelationshipState: isCreatingRelationship is not touched.
ResetRelationshipState ==
    /\ hasSelectedFirstNode' = FALSE
    /\ selectedNodeId' = NULL

\* Second selection: the edge is added locally, add_relationship is issued
\* and the selection reset, all before the handler returns.
CommitRelationship(clickedNodeId) ==
    LET firstNodeId == selectedNodeId
        params == CreateParams(uuidv4(nextUuid), clickedNodeId, firstNodeId)
    IN  /\ requests < MaxRequests
        /\ IF ValidId(clickedNodeId) /\ ValidId(firstNodeId)
           THEN /\ requests' = requests + 1
                /\ nextUuid' = nextUuid + 1
                /\ edgesDataset' = IF network
                                   THEN DataSetAdd(edgesDataset, NewEdge(params))
                                   ELSE edgesDataset
                /\ graphData' =
                       IF network
                       THEN [graphData EXCEPT
                                !.edges = Append(@, PushedEdge(params))]
                       ELSE graphData
                /\ creates' = Append(creates, CreateTask(params))
                /\ ResetRelationshipState
                /\ lastOp' = OpOn("commit", "relationshipCreated", params.id)
                /\ UNCHANGED << statusMessage, error, canvasAttached >>
           ELSE /\ statusMessage' = "Failed to create relationship: {}"
                /\ error' = statusMessage'
                /\ canvasAttached' = CanvasAfter(canvasAttached, loading, error')
                /\ lastOp' = OpOn("commitInvalid", "none", clickedNodeId)
                /\ UNCHANGED << requests, nextUuid, edgesDataset, graphData,
                                creates, hasSelectedFirstNode, selectedNodeId >>
        /\ UNCHANGED << nodesDataset, network, loading, isCreatingRelationship,
                        selectedEdge, backend, fetches, deletes >>

\* Variant: the branch sets no message.
RejectClickSilent(clickedNodeId, message) ==
    /\ lastOp' = OpOn("rejectClick", "none", clickedNodeId)
    /\ UNCHANGED << mirrorVars, canvasAttached, loading, error, selectionVars,
                    statusMessage, nextUuid, backend, requests, requestVars >>

\* A handler branch that only sets the status message.
RejectClick(clickedNodeId, message) ==
    /\ statusMessage' = message
    /\ lastOp' = OpOn("rejectClick", "none", clickedNodeId)
    /\ UNCHANGED << mirrorVars, canvasAttached, loading, error, selectionVars,
                    nextUuid, backend, requests, requestVars >>

\* Variant: the branch dispatches nothing.
PlainClickNoEvent(detail, event) ==
    /\ lastOp' = OpOn("plainClick", "none", detail)
    /\ UNCHANGED << mirrorVars, canvasAttached, loading, error, selectionVars,
                    statusMessage, nextUuid, backend, requests,
                    requestVars >>

\* A handler branch that changes nothing but may dispatch an event; detail
\* is what the event carries (the clicked id when there is no event).
PlainClick(detail, event) ==
    /\ lastOp' = OpOn("plainClick", event, detail)
    /\ UNCHANGED << mirrorVars, canvasAttached, loading, error, selectionVars,
                    statusMessage, nextUuid, backend, requests,
                    requestVars >>

\* A click that hit a node and no edge.
ClickNode(clickedNodeId) ==
    IF ~NodeInMirror(clickedNodeId)
    THEN PlainClick(clickedNodeId, "none")
    ELSE LET node == FindNode(clickedNodeId)
         IN  IF IsDiaryNode(node)
             THEN IF isCreatingRelationship
                  THEN IF ~hasSelectedFirstNode
                       THEN SelectFirstNode(clickedNodeId)
                       ELSE IF IsSecondSelection(clickedNodeId)
                            THEN CommitRelationship(clickedNodeId)
                            ELSE RejectClick(clickedNodeId,
                                     "Please select a different node for the second selection")
                  ELSE PlainClick(clickedNodeId, "selectDiary")
             ELSE IF IsTagNode(node)
                  THEN IF isCreatingRelationship
                       THEN RejectClick(clickedNodeId,
                                "Cannot create relationships with tag nodes")
                       ELSE PlainClick(node.label, "selectTag")
                  ELSE PlainClick(clickedNodeId, "none")

\* The click results the network can report: empty space, a node, an edge,
\* or a node together with an edge that ends at it (the pointer is on both).
ClickResults ==
    { [nodes |-> << >>, edges |-> << >>] }
    \cup { [nodes |-> << n.id >>, edges |-> << >>] : n \in nodesDataset }
    \cup { [nodes |-> << >>, edges |-> << e.id >>] : e \in edgesDataset }
    \cup UNION { { [nodes |-> << end >>, edges |-> << e.id >>] :
                       end \in SetIds(nodesDataset) \cap { e.from, e.to } } :
                   e \in edgesDataset }

\* handleNetworkClick(params), registered by initializeNetwork.
HandleNetworkClick(params) ==
    /\ network
    /\ canvasAttached
    /\ IF Len(params.edges) > 0
       THEN ClickEdge(params.edges[1])
       ELSE IF Len(params.nodes) = 0
            THEN ClickEmpty
            ELSE ClickNode(params.nodes[1])

\* ------------------------------------------------------- add_relationship
\* safeInvoke("add_relationship"): the 10 s timer elapses and invoke is called.
InvokeAddRelationship(i) ==
    /\ creates[i].stage = "timer"
    /\ creates' = [creates EXCEPT ![i].stage = "invoked"]
    /\ UNCHANGED << mirrorVars, canvasAttached, loading, error, selectionVars,
                    statusMessage, nextUuid, backend, requests, fetches,
                    deletes, lastOp >>

\* Variant: the .then handler dispatches relationshipCreated.
CreateOkAnnouncing(i) ==
    /\ creates[i].stage = "invoked"
    /\ backend' = AddRelationship(backend, creates[i])
    /\ statusMessage' = "Relationship created successfully"
    /\ creates' = RemoveAt(creates, i)
    /\ lastOp' = OpOn("createOk", "relationshipCreated", creates[i].id)
    /\ UNCHANGED << mirrorVars, canvasAttached, loading, error, selectionVars,
                    nextUuid, requests, fetches, deletes >>

\* The .then handler of the add_relationship call.
CreateOk(i) ==
    /\ creates[i].stage = "invoked"
    /\ backend' = AddRelationship(backend, creates[i])
    /\ statusMessage' = "Relationship created successfully"
    /\ creates' = RemoveAt(creates, i)
    /\ lastOp' = OpOn("createOk", "none", creates[i].id)
    /\ UNCHANGED << mirrorVars, canvasAttached, loading, error, selectionVars,
                    nextUuid, requests, fetches, deletes >>

\* Variant: the mirror keeps the edge.
RollbackEdgesKeep(edges, relationshipId) == edges

\* graphData.edges.filter(edge => edge.id !== relationshipId)
RollbackEdges(edges, relationshipId) == FilterOutIds(edges, { relationshipId })

\* Variant: the catch block of add_relationship also leaves creation mode.
CreateFailLeavingMode(i) ==
    /\ creates[i].stage = "invoked"
    /\ edgesDataset' = IF network
                       THEN DataSetRemove(edgesDataset, { creates[i].id })
                       ELSE edgesDataset
    /\ graphData' = IF network
                    THEN [graphData EXCEPT
                             !.edges = RollbackEdges(@, creates[i].id)]
                    ELSE graphData
    /\ statusMessage' = "Failed to create relationship: error"
    /\ error' = statusMessage'
    /\ canvasAttached' = CanvasAfter(canvasAttached, loading, error')
    /\ creates' = RemoveAt(creates, i)
    /\ isCreatingRelationship' = FALSE
    /\ hasSelectedFirstNode' = FALSE
    /\ selectedNodeId' = NULL
    /\ lastOp' = OpOn("createFail", "none",
                      IF network /\ creates[i].id \in Ids(graphData.edges)
                      THEN creates[i].id ELSE NULL)
    /\ UNCHANGED << nodesDataset, network, loading, selectedEdge, nextUuid,
                    backend, requests, fetches, deletes >>

\* The .catch handler of the add_relationship call: the edge added locally
\* is removed again. arg of lastOp is the id it removed from the mirror.
CreateFail(i) ==
    /\ creates[i].stage = "invoked"
    /\ edgesDataset' = IF network
                       THEN DataSetRemove(edgesDataset, { creates[i].id })
                       ELSE edgesDataset
    /\ graphData' = IF network
                    THEN [graphData EXCEPT
                             !.edges = RollbackEdges(@, creates[i].id)]
                    ELSE graphData
    /\ statusMessage' = "Failed to create relationship: error"
    /\ error' = statusMessage'
    /\ canvasAttached' = CanvasAfter(canvasAttached, loading, error')
    /\ creates' = RemoveAt(creates, i)
    /\ lastOp' = OpOn("createFail", "none",
                      IF network /\ creates[i].id \in Ids(graphData.edges)
                      THEN creates[i].id ELSE NULL)
    /\ UNCHANGED << nodesDataset, network, loading, selectionVars, nextUuid,
                    backend, requests, fetches, deletes >>

\* ---------------------------------------------------- delete_relationship
\* graphData.edges.find(e => e.id === selectedEdge)
EdgeInMirror(id) == id \in Ids(graphData.edges)

\* The "Delete Relationship" button (rendered while selectedEdge is set).
DeleteSelectedEdge ==
    /\ ControlsRendered
    /\ selectedEdge # NULL
    /\ requests < MaxRequests
    /\ requests' = IF EdgeInMirror(selectedEdge) THEN requests + 1 ELSE requests
    /\ deletes' = IF EdgeInMirror(selectedEdge)
                  THEN Append(deletes, [id |-> selectedEdge])
                  ELSE deletes
    /\ lastOp' = OpOn("deleteSelectedEdge", "none", selectedEdge)
    /\ UNCHANGED << mirrorVars, canvasAttached, loading, error, selectionVars,
                    statusMessage, nextUuid, backend, fetches, creates >>

\* Variant: the handler starts no refresh.
DeleteOkNoRefresh(i) ==
    /\ backend' = DeleteRelationship(backend, deletes[i].id)
    /\ selectedEdge' = NULL
    /\ deletes' = RemoveAt(deletes, i)
    /\ lastOp' = OpOn("deleteOk", "relationshipDeleted", deletes[i].id)
    /\ UNCHANGED << mirrorVars, canvasAttached, loading, error,
                    isCreatingRelationship, hasSelectedFirstNode,
                    selectedNodeId, statusMessage, nextUuid, requests,
                    fetches, creates >>

\* The .then handler of the delete_relationship call.
DeleteOk(i) ==
    /\ backend' = DeleteRelationship(backend, deletes[i].id)
    /\ selectedEdge' = NULL
    /\ IssueUpdateGraphAt(FALSE, backend')
    /\ deletes' = RemoveAt(deletes, i)
    /\ lastOp' = OpOn("deleteOk", "relationshipDeleted", deletes[i].id)
    /\ UNCHANGED << mirrorVars, error, isCreatingRelationship,
                    hasSelectedFirstNode, selectedNodeId, statusMessage,
                    nextUuid, requests, creates >>

\* Variant: the handler also drops the edge selection.
DeleteFailUnselect(i) ==
    /\ error' = "Failed to delete relationship"
    /\ canvasAttached' = CanvasAfter(canvasAttached, loading, error')
    /\ deletes' = RemoveAt(deletes, i)
    /\ selectedEdge' = NULL
    /\ lastOp' = OpOn("deleteFail", "none", deletes[i].id)
    /\ UNCHANGED << mirrorVars, loading, isCreatingRelationship,
                    hasSelectedFirstNode, selectedNodeId, statusMessage,
                    nextUuid, backend, requests, fetches, creates >>

\* The .catch handler of the delete_relationship call.
DeleteFail(i) ==
    /\ error' = "Failed to delete relationship"
    /\ canvasAttached' = CanvasAfter(canvasAttached, loading, error')
    /\ deletes' = RemoveAt(deletes, i)
    /\ lastOp' = OpOn("deleteFail", "none", deletes[i].id)
    /\ UNCHANGED << mirrorVars, loading, selectionVars, statusMessage,
                    nextUuid, backend, requests, fetches, creates >>

\* ------------------------------------------------------- other components
\* Another view deletes a diary (delete_diary): the backend drops the node
\* and the edges that touch it.
RECURSIVE FilterOutIncident(_, _)
FilterOutIncident(edges, nodeId) ==
    IF edges = << >> THEN << >>
    ELSE IF Head(edges).source = nodeId \/ Head(edges).target = nodeId
         THEN FilterOutIncident(Tail(edges), nodeId)
         ELSE << Head(edges) >> \o FilterOutIncident(Tail(edges), nodeId)

DeleteDiary(nodeId) ==
    /\ nodeId \in DeletableDiaries
    /\ \E i \in 1..Len(backend.nodes) :
           backend.nodes[i].id = nodeId /\ backend.nodes[i].node_type = "diary"
    /\ backend' = [nodes |-> FilterOutIds(backend.nodes, { nodeId }),
                   edges |-> FilterOutIncident(backend.edges, nodeId)]
    /\ lastOp' = OpOn("deleteDiary", "none", nodeId)
    /\ UNCHANGED << mirrorVars, canvasAttached, loading, error, selectionVars,
                    statusMessage, nextUuid, requests, requestVars >>

\* ------------------------------------------------------------ specification
Next ==
    \/ \E i \in 1..Len(fetches) : LoadGraphDataOk(i)
           /\ UNCHANGED otherViews
    \/ \E i \in 1..Len(fetches) : LoadGraphDataFail(i)
           /\ UNCHANGED otherViews
    \/ \E showLoading \in BOOLEAN : HostUpdateGraph(showLoading)
           /\ UNCHANGED otherViews
    \/ \E i \in 1..Len(fetches) : UpdateGraphOk(i)
           /\ UNCHANGED otherViews
    \/ \E i \in 1..Len(fetches) : UpdateGraphFail(i)
           /\ UNCHANGED otherViews
    \/ StartCreatingRelationship
           /\ UNCHANGED otherViews
    \/ CancelCreatingRelationship
           /\ UNCHANGED otherViews
    \/ \E params \in ClickResults : HandleNetworkClick(params)
           /\ UNCHANGED otherViews
    \/ \E i \in 1..Len(creates) : InvokeAddRelationship(i)
           /\ UNCHANGED otherViews
    \/ \E i \in 1..Len(creates) : CreateOk(i)
           /\ UNCHANGED otherViews
    \/ \E i \in 1..Len(creates) : CreateFail(i)
           /\ UNCHANGED otherViews
    \/ DeleteSelectedEdge
           /\ UNCHANGED otherViews
    \/ \E i \in 1..Len(deletes) : DeleteOk(i)
           /\ UNCHANGED otherViews
    \/ \E i \in 1..Len(deletes) : DeleteFail(i)
           /\ UNCHANGED otherViews
    \/ \E nodeId \in Ids(backend.nodes) : DeleteDiary(nodeId)
           /\ UNCHANGED otherViews

Spec == Init /\ [][Next]_vars

\* ------------------------------------------- responses delivered out of step
\* The component after the first relationship of the session was created
\* and stored: mount, load, startCreatingRelationship, click d1, click d2,
\* add_relationship resolved. The request count starts again from here.
FirstCreateParams == CreateParams(uuidv4(1), "d2", "d1")

InitAfterCreate ==
    /\ graphData = [nodes |-> ProcessNodes(InitialBackend.nodes),
                    edges |-> Append(ProcessEdges(InitialBackend.edges),
                                     PushedEdge(FirstCreateParams))]
    /\ nodesDataset = DataSetOf(ProcessNodes(InitialBackend.nodes))
    /\ edgesDataset = DataSetAdd(DataSetOf(ProcessEdges(InitialBackend.edges)),
                                 NewEdge(FirstCreateParams))
    /\ network = TRUE
    /\ canvasAttached = TRUE
    /\ loading = FALSE
    /\ error = NULL
    /\ isCreatingRelationship = TRUE
    /\ hasSelectedFirstNode = FALSE
    /\ selectedNodeId = NULL
    /\ selectedEdge = NULL
    /\ statusMessage = "Relationship created successfully"
    /\ nextUuid = 2
    /\ backend = AddRelationship(InitialBackend, FirstCreateParams)
    /\ requests = 0
    /\ fetches = << >>
    /\ creates = << >>
    /\ deletes = << >>
    /\ lastOp = OpOn("createOk", "none", uuidv4(1))
    /\ manager = NULL
    /\ editor = NULL

\* The steps of the component once loaded, with the answer of a
\* get_graph_data request computed at one moment and delivered at a later
\* one.
NextReordered ==
    \/ \E showLoading \in BOOLEAN : HostUpdateGraph(showLoading)
           /\ UNCHANGED otherViews
    \/ \E i \in 1..Len(fetches) : AnswerGetGraphData(i)
           /\ UNCHANGED otherViews
    \/ \E i \in 1..Len(fetches) : UpdateGraphOk(i)
           /\ UNCHANGED otherViews
    \/ \E i \in 1..Len(fetches) : UpdateGraphFail(i)
           /\ UNCHANGED otherViews
    \/ StartCreatingRelationship
           /\ UNCHANGED otherViews
    \/ CancelCreatingRelationship
           /\ UNCHANGED otherViews
    \/ \E params \in ClickResults : HandleNetworkClick(params)
           /\ UNCHANGED otherViews
    \/ \E i \in 1..Len(creates) : InvokeAddRelationship(i)
           /\ UNCHANGED otherViews
    \/ \E i \in 1..Len(creates) : CreateOk(i)
           /\ UNCHANGED otherViews
    \/ \E i \in 1..Len(creates) : CreateFail(i)
           /\ UNCHANGED otherViews
    \/ DeleteSelectedEdge
           /\ UNCHANGED otherViews
    \/ \E i \in 1..Len(deletes) : DeleteOk(i)
           /\ UNCHANGED otherViews
    \/ \E i \in 1..Len(deletes) : DeleteFail(i)
           /\ UNCHANGED otherViews

SpecReordered == InitAfterCreate /\ [][NextReordered]_vars

\* ----------------------------------------------- snapshots with untyped nodes
\* A node record without node_type and without properties.
UntypedNode(id) ==
    [id |-> id, label |-> NodeLabel(id), node_type |-> UNDEF,
     properties |-> UNDEF]

NodePool ==
    { BackendNode("d1", "diary"), BackendNode("t1", "tag"), UntypedNode("u1") }

EdgePool == { BackendEdge("e1", "d1", "t1"), BackendEdge("e2", "u1", "t1") }

MaxSnapshotNodes == 3

\* The sequences of distinct elements of S, up to n long.
SeqsOf(S, n) ==
    UNION { { q \in [1..k -> S] : \A a, b \in 1..k : a # b => q[a] # q[b] } :
                k \in 0..n }

\* The graphs that hold the untyped node: nodes in any order, and edges, in
\* any order, between nodes of the graph.
UntypedSnapshots ==
    { g \in [nodes : SeqsOf(NodePool, MaxSnapshotNodes),
              edges : SeqsOf(EdgePool, Cardinality(EdgePool))] :
          /\ UntypedNode("u1") \in Range(g.nodes)
          /\ \A k \in 1..Len(g.edges) :
                 { g.edges[k].source, g.edges[k].target } \subseteq Ids(g.nodes) }

\* The component is mounted while the backend holds one of these graphs.
InitUntyped ==
    /\ graphData = [nodes |-> << >>, edges |-> << >>]
    /\ nodesDataset = {}
    /\ edgesDataset = {}
    /\ network = FALSE
    /\ canvasAttached = FALSE
    /\ loading = TRUE
    /\ error = NULL
    /\ isCreatingRelationship = FALSE
    /\ hasSelectedFirstNode = FALSE
    /\ selectedNodeId = NULL
    /\ selectedEdge = NULL
    /\ statusMessage = NULL
    /\ nextUuid = 1
    /\ backend \in UntypedSnapshots
    /\ requests = 0
    /\ fetches = << FetchTask("load", FALSE) >>
    /\ creates = << >>
    /\ deletes = << >>
    /\ lastOp = Op("mount", "none")
    /\ manager = NULL
    /\ editor = NULL

\* The load and the clicks that follow it.
NextUntyped ==
    \/ \E i \in 1..Len(fetches) : LoadGraphDataOk(i)
           /\ UNCHANGED otherViews
    \/ \E i \in 1..Len(fetches) : LoadGraphDataFail(i)
           /\ UNCHANGED otherViews
    \/ StartCreatingRelationship
           /\ UNCHANGED otherViews
    \/ CancelCreatingRelationship
           /\ UNCHANGED otherViews
    \/ \E params \in ClickResults : HandleNetworkClick(params)
           /\ UNCHANGED otherViews

SpecUntyped == InitUntyped /\ [][NextUntyped]_vars

\* ------------------------------------------- the RelationshipManager alone
NextManager ==
    \/ ManagerLoadOk /\ UNCHANGED << graphView, editor >>
    \/ ManagerLoadFail /\ UNCHANGED << graphView, editor >>
    \/ ManagerOpenForm /\ UNCHANGED << graphView, editor >>
    \/ ManagerCancelForm /\ UNCHANGED << graphView, editor >>
    \/ \E value \in DiaryOptions :
           ManagerSelectParent(value) /\ UNCHANGED << graphView, editor >>
    \/ \E value \in DiaryOptions :
           ManagerSelectChild(value) /\ UNCHANGED << graphView, editor >>
    \/ ManagerCreateRelationship /\ UNCHANGED << graphView, editor >>
    \/ ManagerAddOk /\ UNCHANGED << graphView, editor >>
    \/ ManagerAddFail /\ UNCHANGED << graphView, editor >>
    \/ \E ok \in BOOLEAN :
           ManagerReloadAfterAdd(ok) /\ UNCHANGED << graphView, editor >>
    \/ \E id \in Ids(manager.relationships) :
           ManagerDeleteRelationship(id) /\ UNCHANGED << graphView, editor >>
    \/ ManagerDeleteOk /\ UNCHANGED << graphView, editor >>
    \/ ManagerDeleteFail /\ UNCHANGED << graphView, editor >>
    \/ \E ok \in BOOLEAN :
           ManagerReloadAfterDelete(ok) /\ UNCHANGED << graphView, editor >>

\* The RelationshipManager right after it is mounted beside the graph view.
InitManager ==
    /\ GraphCanvasMounted
    /\ manager = ManagerMounted
    /\ editor = NULL

SpecManager == InitManager /\ [][NextManager]_vars

\* ------------------------------------------------------- the Editor alone
\* The editor is mounted on a new entry or on the stored diary.
InitEditor ==
    /\ GraphCanvasMounted
    /\ manager = NULL
    /\ editor \in { EditorMounted(NewEntry), EditorMounted(StoredEntry) }

NextEditor ==
    \/ \E t \in Titles :
           EditorSetTitle(t) /\ UNCHANGED << graphView, manager >>
    \/ \E c \in Contents :
           EditorSetContent(c) /\ UNCHANGED << graphView, manager >>
    \/ EditorSaveEntry /\ UNCHANGED << graphView, manager >>
    \/ EditorListOk /\ UNCHANGED << graphView, manager >>
    \/ EditorFail /\ UNCHANGED << graphView, manager >>
    \/ EditorSaveOk /\ UNCHANGED << graphView, manager >>

SpecEditor == InitEditor /\ [][NextEditor]_vars

\* ------------------------------------------------------------------ claims
\* The edges of the mirror that the commit step pushed (they carry
\* source/target); the edges a snapshot was mapped to carry from/to.
PushedEdges == { e \in Range(graphData.edges) : e.source # UNDEF }

\* The id sets that a further updateGraph, fetching the same snapshot, would
\* leave in the render surface.
NodesAfterRefresh == RefreshDataset(nodesDataset, ProcessNodes(GetGraphData.nodes))

EdgesAfterRefresh == RefreshDataset(edgesDataset, ProcessEdges(GetGraphData.edges))

\* C1: when updateGraph has completed successfully, the node ids and the
\* edge ids of the mirror, and of the render surface once it exists, are
\* the ids of the snapshot the refresh fetched.
RefreshMatchesSnapshot ==
    lastOp.op = "updateGraphOk" =>
        /\ Ids(graphData.nodes) = Ids(GetGraphData.nodes)
        /\ Ids(graphData.edges) = Ids(GetGraphData.edges)
        /\ network => /\ SetIds(nodesDataset) = Ids(GetGraphData.nodes)
                      /\ SetIds(edgesDataset) = Ids(GetGraphData.edges)

\* C1 witness: a refresh has completed on an initialized network and has
\* dropped an optimistic edge whose create request is still in flight.
RefreshDroppedOptimisticEdge ==
    /\ lastOp.op = "updateGraphOk"
    /\ network
    /\ \E i \in 1..Len(creates) : creates[i].id \notin SetIds(edgesDataset)

\* C2: after a successful updateGraph, running updateGraph again with the
\* same snapshot leaves the same node and edge ids in the mirror and in the
\* render surface, and no id occurs twice.
RefreshIdempotent ==
    lastOp.op = "updateGraphOk" =>
        /\ Ids(ProcessNodes(GetGraphData.nodes)) = Ids(graphData.nodes)
        /\ Ids(ProcessEdges(GetGraphData.edges)) = Ids(graphData.edges)
        /\ NoDuplicateIds(graphData.nodes)
        /\ NoDuplicateIds(graphData.edges)
        /\ network =>
              /\ SetIds(NodesAfterRefresh) = SetIds(nodesDataset)
              /\ SetIds(EdgesAfterRefresh) = SetIds(edgesDataset)
              /\ Cardinality(nodesDataset) = Cardinality(SetIds(nodesDataset))
              /\ Cardinality(edgesDataset) = Cardinality(SetIds(edgesDataset))
              /\ Cardinality(NodesAfterRefresh) = Cardinality(SetIds(nodesDataset))
              /\ Cardinality(EdgesAfterRefresh) = Cardinality(SetIds(edgesDataset))

\* C2 witness: a refresh has completed that removed a node from an
\* initialized render surface which still holds an edge.
RefreshRemovedNode ==
    /\ lastOp.op = "updateGraphOk"
    /\ network
    /\ Cardinality(nodesDataset) < Len(InitialBackend.nodes)
    /\ edgesDataset # {}

\* C3: the failure handler of a create request removes exactly the edge of
\* that request's id from the mirror and from the render surface, and
\* leaves the nodes alone.
RollbackSymmetry ==
    [][\A i \in 1..Len(creates) :
          CreateFail(i) =>
              /\ Ids(graphData'.edges) = Ids(graphData.edges) \ { creates[i].id }
              /\ SetIds(edgesDataset') = SetIds(edgesDataset) \ { creates[i].id }
              /\ \A e \in Range(graphData.edges) :
                     e.id # creates[i].id => e \in Range(graphData'.edges)
              /\ graphData'.nodes = graphData.nodes
              /\ nodesDataset' = nodesDataset]_vars

\* C3 witness: a create request has failed and its handler has removed the
\* optimistic edge from the mirror.
RollbackRemovedEdge ==
    /\ lastOp.op = "createFail"
    /\ lastOp.arg # NULL
    /\ lastOp.arg \notin Ids(graphData.edges)

\* C4: no relationship submitted to the backend and no edge inserted by the
\* commit step has the same node as child and as parent.
NoSelfLoop ==
    /\ \A i \in 1..Len(creates) : creates[i].parentId # creates[i].childId
    /\ \A e \in PushedEdges : e.source # e.target
    /\ \A e \in edgesDataset : e.from # e.to

\* C4 witness: a relationship has been committed: its request is in flight
\* and its edge is in the mirror.
CommitInFlight ==
    \E i \in 1..Len(creates) : \E e \in PushedEdges : e.id = creates[i].id

\* C5 (as claimed): the edge the commit step pushes to the mirror has the
\* pending child as source and the second-clicked node as target.
CommitEdgeChildToParent ==
    \A i \in 1..Len(creates) : \A e \in PushedEdges :
        e.id = creates[i].id =>
            e.source = creates[i].childId /\ e.target = creates[i].parentId

\* C6 (as claimed): both endpoints of every edge the commit step inserted
\* are nodes of the mirror.
NoDanglingEdge ==
    \A e \in PushedEdges :
        e.source \in Ids(graphData.nodes) /\ e.target \in Ids(graphData.nodes)

\* The clicks that hit a tag-typed node of the mirror and no edge.
TagNodeClicks ==
    { [nodes |-> << n.id >>, edges |-> << >>] :
          n \in { m \in Range(graphData.nodes) : m.node_type = "tag" } }

\* C7: while relationship creation is active, a click on a tag node changes
\* neither the pending child, nor the mirror and the render surface, nor the
\* requests in flight; it sets the status message.
TypeGating ==
    [][\A params \in TagNodeClicks :
          (isCreatingRelationship /\ HandleNetworkClick(params)) =>
              /\ UNCHANGED << selectedNodeId, hasSelectedFirstNode,
                              isCreatingRelationship, graphData, nodesDataset,
                              edgesDataset, backend, requests, requestVars >>
              /\ statusMessage' = "Cannot create relationships with tag nodes"]_vars

\* C7 witness: a tag node was clicked while a child was pending, and the
\* child is still pending.
TagClickRejected ==
    /\ lastOp = OpOn("rejectClick", "none", "t1")
    /\ isCreatingRelationship
    /\ hasSelectedFirstNode
    /\ statusMessage = "Cannot create relationships with tag nodes"

\* C8 (as claimed): a pending child and a selected edge never hold together.
NodeAndEdgeSelectionExclusive ==
    ~(selectedNodeId # NULL /\ selectedEdge # NULL)

\* C9: a failed get_graph_data, in loadGraphData or in updateGraph, leaves
\* the mirror and the render surface as they were and sets error.
FetchFailureKeepsMirror ==
    [][\A i \in 1..Len(fetches) :
          (LoadGraphDataFail(i) \/ UpdateGraphFail(i)) =>
              /\ UNCHANGED << graphData, nodesDataset, edgesDataset >>
              /\ error' # NULL]_vars

\* C9 witness: a refresh has failed on an initialized network whose mirror
\* holds an optimistic edge.
RefreshFailedWithEdges ==
    /\ lastOp.op = "updateGraphFail"
    /\ network
    /\ PushedEdges # {}
    /\ error = "Failed to update graph"

\* C10 (as claimed): loading is never true while error is set.
LoadingErrorExclusive == ~(loading /\ error # NULL)

\* The edges of the mirror other than the one with the given id.
OtherMirrorEdges(edges, id) == FilterOutIds(edges, { id })

\* The edges of the render surface other than the one with the given id.
OtherSurfaceEdges(ds, id) == { e \in ds : e.id # id }

\* C11: the create requests in flight carry pairwise different ids, and the
\* completion of one of them, success or failure, in whatever order the
\* completions arrive, changes no edge of the mirror or of the render
\* surface other than the edge of its own id.
ChainedCommitsIndependent ==
    [][/\ \A i, j \in 1..Len(creates') :
              i # j => creates'[i].id # creates'[j].id
       /\ \A i \in 1..Len(creates) :
              (CreateOk(i) \/ CreateFail(i)) =>
                  /\ OtherMirrorEdges(graphData'.edges, creates[i].id)
                         = OtherMirrorEdges(graphData.edges, creates[i].id)
                  /\ OtherSurfaceEdges(edgesDataset', creates[i].id)
                         = OtherSurfaceEdges(edgesDataset, creates[i].id)]_vars

\* C11 witness: two commits were in flight, the second one issued has
\* failed first, and the edge of the first is still in the mirror and in
\* the render surface while its request is in flight.
SecondCommitFailedFirst ==
    /\ lastOp = OpOn("createFail", "none", uuidv4(2))
    /\ Len(creates) = 1
    /\ creates[1].id = uuidv4(1)
    /\ uuidv4(1) \in Ids(graphData.edges)
    /\ uuidv4(1) \in SetIds(edgesDataset)
    /\ uuidv4(2) \notin Ids(graphData.edges) \cup SetIds(edgesDataset)

\* C12: in the step that hands a create request to safeInvoke, the edge of
\* that request is in the mirror and in the render surface, and the request
\* has not reached the backend yet (invoke has not been called).
OptimisticEdgeBeforeRequest ==
    [][Len(creates') > Len(creates) =>
          LET task == creates'[Len(creates')]
          IN  /\ task.stage = "timer"
              /\ task.id \in Ids(graphData'.edges)
              /\ task.id \in SetIds(edgesDataset')
              /\ task.id \notin Ids(backend'.edges)]_vars

\* C12 witness: a commit has just run; its request waits for invoke and its
\* edge is in the mirror and in the render surface, not in the backend.
CommitVisibleBeforeInvoke ==
    /\ lastOp.op = "commit"
    /\ \E i \in 1..Len(creates) :
           /\ creates[i].id = lastOp.arg
           /\ creates[i].stage = "timer"
    /\ lastOp.arg \in Ids(graphData.edges) \cap SetIds(edgesDataset)
    /\ lastOp.arg \notin Ids(backend.edges)

\* The clicks that hit a diary-typed node of the mirror and no edge.
DiaryNodeClicks ==
    { [nodes |-> << n.id >>, edges |-> << >>] :
          n \in { m \in Range(graphData.nodes) : m.node_type = "diary" } }

\* C13: while relationship creation is active and no child is pending, a
\* click on a diary node makes that node the pending child, changes neither
\* the mirror nor the render surface and issues no backend call.
FirstSelectionRecordsChild ==
    [][\A params \in DiaryNodeClicks :
          (/\ isCreatingRelationship
           /\ selectedNodeId = NULL
           /\ HandleNetworkClick(params)) =>
              /\ selectedNodeId' = params.nodes[1]
              /\ hasSelectedFirstNode' = TRUE
              /\ isCreatingRelationship' = TRUE
              /\ UNCHANGED << graphData, nodesDataset, edgesDataset, backend,
                              requests, requestVars >>]_vars

\* C13 witness: the first click of a pair has made a diary node the pending
\* child while an earlier commit is still in flight.
ChildPendingAfterFirstClick ==
    /\ lastOp.op = "firstSelection"
    /\ isCreatingRelationship
    /\ hasSelectedFirstNode
    /\ selectedNodeId = lastOp.arg
    /\ creates # << >>

\* C14: a click on a diary node other than the pending child, while
\* creation is active, leaves the workflow awaiting a child at once: the
\* pending child is cleared, creation stays active and the click handler
\* stays reachable while the create request of the click is still waiting,
\* so the next diary click is a first selection again.
CommitReturnsToAwaitingChild ==
    [][\A params \in DiaryNodeClicks :
          (/\ isCreatingRelationship
           /\ hasSelectedFirstNode
           /\ selectedNodeId # params.nodes[1]
           /\ HandleNetworkClick(params)) =>
              /\ selectedNodeId' = NULL
              /\ hasSelectedFirstNode' = FALSE
              /\ isCreatingRelationship' = TRUE
              /\ network' /\ canvasAttached'
              /\ Len(creates') = Len(creates) + 1
              /\ creates'[Len(creates')].stage = "timer"]_vars

\* C14 witness: a second relationship has been committed while the request
\* of the first one has not completed, and the workflow awaits a child.
SecondCommitWhileFirstInFlight ==
    /\ lastOp = OpOn("commit", "relationshipCreated", uuidv4(2))
    /\ Len(creates) = 2
    /\ isCreatingRelationship
    /\ ~hasSelectedFirstNode
    /\ selectedNodeId = NULL

\* C15: while a child is pending, a click on the pending child itself
\* changes neither the pending child nor the creation mode, adds no edge,
\* issues no backend call and sets the "different node" status message.
SameNodeRejected ==
    [][\A params \in DiaryNodeClicks :
          (/\ isCreatingRelationship
           /\ hasSelectedFirstNode
           /\ selectedNodeId = params.nodes[1]
           /\ HandleNetworkClick(params)) =>
              /\ UNCHANGED << selectedNodeId, hasSelectedFirstNode,
                              isCreatingRelationship, graphData, nodesDataset,
                              edgesDataset, backend, requests, requestVars >>
              /\ statusMessage' =
                     "Please select a different node for the second selection"]_vars

\* C15 witness: the pending child was clicked again and is still pending.
PendingChildClickedAgain ==
    /\ lastOp.op = "rejectClick"
    /\ lastOp.arg = selectedNodeId
    /\ isCreatingRelationship
    /\ hasSelectedFirstNode
    /\ statusMessage = "Please select a different node for the second selection"

\* The two nodes a mirror edge joins: a mapped edge carries from/to, a
\* pushed edge source/target.
EdgeEnds(e) == IF e.from # UNDEF THEN { e.from, e.to } ELSE { e.source, e.target }

\* The mirror holds an edge between the two nodes, in either direction.
Connected(node1Id, node2Id) ==
    \E e \in Range(graphData.edges) : EdgeEnds(e) = { node1Id, node2Id }

\* C16 (as claimed): the commit step never submits a relationship between
\* two nodes that an edge of the mirror already joins.
NoDuplicateRelationship ==
    [][Len(creates') > Len(creates) =>
          LET task == creates'[Len(creates')]
          IN  ~Connected(task.parentId, task.childId)]_vars

\* C17 (as claimed): an edge the render surface or the mirror holds under
\* the id of a relationship the backend has stored has the endpoints, in the
\* same direction, that the mapper gives the backend record.
OptimisticEdgeMatchesBackend ==
    \A b \in Range(backend.edges) :
        /\ \A e \in edgesDataset :
               e.id = b.id => e.from = ProcessEdge(b).from /\ e.to = ProcessEdge(b).to
        /\ \A e \in PushedEdges :
               e.id = b.id => e.source = b.source /\ e.target = b.target

\* C18 (as claimed): cancelCreatingRelationship clears the pending child
\* and the creation mode, leaves no selection behind, neither a node nor an
\* edge, and does not change the mirror.
CancelClearsSelection ==
    [][CancelCreatingRelationship =>
          /\ selectedNodeId' = NULL
          /\ hasSelectedFirstNode' = FALSE
          /\ isCreatingRelationship' = FALSE
          /\ selectedEdge' = NULL
          /\ UNCHANGED << graphData, nodesDataset, edgesDataset >>]_vars

\* C19: cancelCreatingRelationship leaves the create requests in flight as
\* they are; when such a request completes after the cancel, its failure
\* leaves its edge neither in the mirror nor in the render surface, and its
\* success changes neither.
CancelKeepsRequestInFlight ==
    [][/\ CancelCreatingRelationship => creates' = creates
       /\ \A i \in 1..Len(creates) :
              ~isCreatingRelationship =>
                  /\ CreateFail(i) =>
                         creates[i].id \notin
                             Ids(graphData'.edges) \cup SetIds(edgesDataset')
                  /\ CreateOk(i) => UNCHANGED << graphData, edgesDataset >>]_vars

\* C19 witness: after a cancel, a create request has failed and its handler
\* has removed the optimistic edge from the mirror.
RollbackAfterCancel ==
    /\ lastOp.op = "createFail"
    /\ lastOp.arg # NULL
    /\ ~isCreatingRelationship
    /\ lastOp.arg \notin Ids(graphData.edges) \cup SetIds(edgesDataset)

\* C20 (as claimed): the failure of a create request after the workflow was
\* cancelled sets neither the status message nor the error field.
FailureAfterCancelSilent ==
    [][\A i \in 1..Len(creates) :
          (~isCreatingRelationship /\ CreateFail(i)) =>
              UNCHANGED << statusMessage, error >>]_vars

\* C21: the failure handler of a delete request leaves the edge selection,
\* the mirror and the render surface as they were and sets error.
DeleteFailureKeepsSelection ==
    [][\A i \in 1..Len(deletes) :
          DeleteFail(i) =>
              /\ UNCHANGED << selectedEdge, graphData, nodesDataset,
                              edgesDataset >>
              /\ error' = "Failed to delete relationship"]_vars

\* C21 witness: the delete request of the selected edge has failed; the
\* edge is still selected and still in the mirror and the render surface.
DeleteFailedEdgeStillSelected ==
    /\ lastOp.op = "deleteFail"
    /\ selectedEdge = lastOp.arg
    /\ selectedEdge \in Ids(graphData.edges) \cap SetIds(edgesDataset)
    /\ error = "Failed to delete relationship"

\* C22: deleteSelectedEdge changes neither the mirror nor the render
\* surface; the success handler of its request does not change them either:
\* it clears the edge selection, emits relationshipDeleted and starts a
\* refresh without the loading flag.
DeletionNotOptimistic ==
    [][/\ DeleteSelectedEdge =>
              UNCHANGED << graphData, nodesDataset, edgesDataset >>
       /\ \A i \in 1..Len(deletes) :
              DeleteOk(i) =>
                  /\ UNCHANGED << graphData, nodesDataset, edgesDataset >>
                  /\ selectedEdge' = NULL
                  /\ lastOp'.event = "relationshipDeleted"
                  /\ Len(fetches') = Len(fetches) + 1
                  /\ \A j \in 1..Len(fetches) : fetches'[j] = fetches[j]
                  /\ fetches'[Len(fetches')].kind = "update"
                  /\ fetches'[Len(fetches')].showLoading = FALSE]_vars

\* C22 witness: the delete request has succeeded and its refresh is in
\* flight; the backend no longer holds the edge, the mirror and the render
\* surface still do.
DeletedEdgeAwaitsRefresh ==
    /\ lastOp.op = "deleteOk"
    /\ selectedEdge = NULL
    /\ fetches # << >>
    /\ lastOp.arg \notin Ids(backend.edges)
    /\ lastOp.arg \in Ids(graphData.edges) \cap SetIds(edgesDataset)

\* The click results that hit the edge e: the edge alone, or the edge
\* together with a node at one of its ends.
EdgeClicks(e) ==
    { [nodes |-> ns, edges |-> << e.id >>] :
          ns \in { << >> } \cup
                 { << end >> : end \in SetIds(nodesDataset) \cap { e.from, e.to } } }

\* C23: a click that hits an edge, in any mode and whether or not it also
\* hits a node, selects that edge and clears the pending child; it
\* dispatches no event, changes neither the mirror nor the render surface
\* and issues no backend call.  (Stated as the contrapositive: a step without
\* that effect is not a click on the edge.)
EdgeHitTakesPrecedence ==
    [][\A e \in edgesDataset :
          LET Effect == /\ selectedEdge' = e.id
                        /\ selectedNodeId' = NULL
                        /\ hasSelectedFirstNode' = FALSE
                        /\ lastOp'.event = "none"
                        /\ UNCHANGED << isCreatingRelationship, graphData,
                                        nodesDataset, edgesDataset, backend,
                                        requests, requestVars >>
          IN  ~Effect => \A params \in EdgeClicks(e) :
                             ~HandleNetworkClick(params)]_vars

\* C23 witness: an edge was clicked while creation is active; it is the
\* selected edge and no child is pending.
EdgeClickedWhileCreating ==
    /\ lastOp.op = "clickEdge"
    /\ isCreatingRelationship
    /\ selectedEdge = lastOp.arg
    /\ selectedNodeId = NULL
    /\ ~hasSelectedFirstNode

\* The click result of empty space.
EmptyClick == [nodes |-> << >>, edges |-> << >>]

\* C24: a click on empty space clears the edge selection; it leaves the
\* pending child alone while creation is active and clears it otherwise.
EmptyClickKeepsPendingChild ==
    [][HandleNetworkClick(EmptyClick) =>
          /\ selectedEdge' = NULL
          /\ isCreatingRelationship =>
                 UNCHANGED << selectedNodeId, hasSelectedFirstNode >>
          /\ ~isCreatingRelationship =>
                 selectedNodeId' = NULL /\ hasSelectedFirstNode' = FALSE
          /\ UNCHANGED isCreatingRelationship]_vars

\* C24 witness: empty space was clicked while a child was pending, and the
\* child is still pending.
PendingChildSurvivedEmptyClick ==
    /\ lastOp.op = "clickEmpty"
    /\ isCreatingRelationship
    /\ hasSelectedFirstNode
    /\ selectedNodeId # NULL
    /\ selectedEdge = NULL

\* What a node click leaves alone when it only notifies the host.
NotifyFrame ==
    UNCHANGED << selectionVars, graphData, nodesDataset, edgesDataset,
                 backend, requests, requestVars >>

\* C25: outside creation mode a click on a diary node dispatches
\* selectDiary with the node id and a click on a tag node dispatches
\* selectTag with the node label, and both leave the selection, the mirror,
\* the render surface and the requests alone; in creation mode a node click
\* dispatches neither event (a step that dispatches one of them is not a
\* node click).
PlainClickNotifies ==
    [][IF ~isCreatingRelationship
       THEN /\ \A params \in DiaryNodeClicks :
                   HandleNetworkClick(params) =>
                       /\ lastOp' = OpOn("plainClick", "selectDiary",
                                         params.nodes[1])
                       /\ NotifyFrame
            /\ \A params \in TagNodeClicks :
                   HandleNetworkClick(params) =>
                       /\ lastOp' = OpOn("plainClick", "selectTag",
                                         NodeLabel(params.nodes[1]))
                       /\ NotifyFrame
       ELSE lastOp'.event \in { "selectDiary", "selectTag" } =>
                \A params \in DiaryNodeClicks \cup TagNodeClicks :
                    ~HandleNetworkClick(params)]_vars

\* C25 witness: a tag node was clicked outside creation mode while an edge
\* was selected; selectTag carried its label and the edge is still selected.
TagSelectedOutsideCreation ==
    /\ lastOp = OpOn("plainClick", "selectTag", NodeLabel("t1"))
    /\ ~isCreatingRelationship
    /\ selectedEdge # NULL

\* A refresh that was started when the backend already held a relationship
\* created here ends with that relationship in the mirror and in the render
\* surface, unless it was deleted since.
RefreshKeepsPersistedEdge ==
    [][\A i \in 1..Len(fetches) :
          UpdateGraphOk(i) =>
              \A id \in fetches[i].known \cap Ids(backend.edges) :
                  id \in Ids(graphData'.edges) \cap SetIds(edgesDataset')]_vars

\* C26 (as claimed): a refresh started after a created relationship was
\* stored ends with that relationship in the mirror and in the render
\* surface, and when no request is in flight after it, the edge ids of the
\* mirror are the edge ids the backend holds.
RefreshEventuallyConsistent ==
    [][\A i \in 1..Len(fetches) :
          (UpdateGraphOk(i) /\ fetches[i].known # {}) =>
              /\ \A id \in fetches[i].known \cap Ids(backend.edges) :
                     id \in Ids(graphData'.edges) \cap SetIds(edgesDataset')
              /\ (fetches' = << >> /\ creates' = << >> /\ deletes' = << >>) =>
                     Ids(graphData'.edges) = Ids(backend'.edges)]_vars

\* The ids a refresh removes from a DataSet before it updates it.
RemovedByRefresh(ds, processed) == IdsToRemove(SetIds(ds), Ids(processed))

\* C27: a refresh removes from the render surface exactly the ids the
\* surface holds and the new snapshot lacks: no id of the snapshot is
\* removed before the update, and the ids gone after the refresh are those
\* removed ones, for nodes and for edges.
RefreshRemovesOnlyStaleIds ==
    [][\A i \in 1..Len(fetches) :
          (UpdateGraphOk(i) /\ network) =>
              LET data == Snapshot(fetches[i])
                  nodesToRemove == RemovedByRefresh(nodesDataset,
                                                    ProcessNodes(data.nodes))
                  edgesToRemove == RemovedByRefresh(edgesDataset,
                                                    ProcessEdges(data.edges))
              IN  /\ nodesToRemove = SetIds(nodesDataset) \ Ids(data.nodes)
                  /\ edgesToRemove = SetIds(edgesDataset) \ Ids(data.edges)
                  /\ SetIds(nodesDataset) \ SetIds(nodesDataset') = nodesToRemove
                  /\ SetIds(edgesDataset) \ SetIds(edgesDataset') = edgesToRemove]_vars

\* C27 witness: a refresh has removed a deleted diary and its edge from the
\* render surface and has kept the other diary and the tag.
RefreshRemovedDiaryAndItsEdge ==
    /\ lastOp.op = "updateGraphOk"
    /\ network
    /\ SetIds(nodesDataset) = Ids(InitialBackend.nodes) \ DeletableDiaries
    /\ "e1" \notin SetIds(edgesDataset)

\* C28: once the network is initialized, the render surface and the mirror
\* hold the same node ids and the same edge ids.
SurfaceEqualsMirror ==
    network =>
        /\ SetIds(nodesDataset) = Ids(graphData.nodes)
        /\ SetIds(edgesDataset) = Ids(graphData.edges)

\* C28 witness: one of two optimistic edges has been rolled back; the other
\* is in the mirror and in the render surface.
OneOfTwoEdgesRolledBack ==
    /\ lastOp.op = "createFail"
    /\ lastOp.arg # NULL
    /\ network
    /\ PushedEdges # {}
    /\ \A e \in PushedEdges : e.id \in SetIds(edgesDataset)

\* C29 as stated: startCreatingRelationship leaves creation mode active with
\* no pending child, no selected edge and no status message set.
StartLeavesNoStatusMessage ==
    [][StartCreatingRelationship =>
          /\ isCreatingRelationship'
          /\ ~hasSelectedFirstNode'
          /\ selectedNodeId' = NULL
          /\ selectedEdge' = NULL
          /\ statusMessage' = NULL]_vars

\* C29 (amended): startCreatingRelationship leaves creation mode active with
\* no pending child and no selected edge; the prior status message is
\* replaced by the instruction "Click on the first node (child/son/daughter)".
StartEntersAwaitingChild ==
    [][StartCreatingRelationship =>
          /\ isCreatingRelationship'
          /\ ~hasSelectedFirstNode'
          /\ selectedNodeId' = NULL
          /\ selectedEdge' = NULL
          /\ statusMessage' = "Click on the first node (child/son/daughter)"]_vars

\* Creation was started again after an earlier commit had succeeded and the
\* mode had been cancelled: the success message is gone, the instruction is
\* shown.
StartedAfterEarlierCommit ==
    /\ lastOp.op = "startCreatingRelationship"
    /\ isCreatingRelationship
    /\ nextUuid > 1
    /\ creates = << >>
    /\ statusMessage = "Click on the first node (child/son/daughter)"

\* A rejected get_graph_data, add_relationship or delete_relationship call.
BackendFailure ==
    \/ \E i \in 1..Len(fetches) : LoadGraphDataFail(i)
    \/ \E i \in 1..Len(fetches) : UpdateGraphFail(i)
    \/ \E i \in 1..Len(creates) : CreateFail(i)
    \/ \E i \in 1..Len(deletes) : DeleteFail(i)

\* idle, awaiting-child or awaiting-parent
AuthoringStateOk ==
    \/ ~isCreatingRelationship /\ ~hasSelectedFirstNode
    \/ isCreatingRelationship /\ ~hasSelectedFirstNode /\ selectedNodeId = NULL
    \/ isCreatingRelationship /\ hasSelectedFirstNode /\ selectedNodeId # NULL

\* C30: every failure of a backend call is handled by a catch that sets an
\* error value, and the handler leaves the mode and the pending child as they
\* were; the authoring state stays idle, awaiting-child or awaiting-parent.
FailureCaughtAuthoringKept ==
    [][BackendFailure =>
          /\ error' # NULL
          /\ UNCHANGED << isCreatingRelationship, hasSelectedFirstNode,
                          selectedNodeId >>
          /\ AuthoringStateOk']_vars

\* An add_relationship call failed while the next child was already chosen.
CreateFailedWhileAwaitingParent ==
    /\ lastOp.op = "createFail"
    /\ isCreatingRelationship
    /\ hasSelectedFirstNode
    /\ selectedNodeId # NULL
    /\ error # NULL

\* The records of a snapshot are in the mirror one for one, in order.
MirrorsSnapshot(mirror, data) ==
    /\ Len(mirror.nodes) = Len(data.nodes)
    /\ \A k \in 1..Len(data.nodes) :
           /\ mirror.nodes[k].id = data.nodes[k].id
           /\ mirror.nodes[k].label = data.nodes[k].label
    /\ Len(mirror.edges) = Len(data.edges)
    /\ \A k \in 1..Len(data.edges) :
           /\ mirror.edges[k].id = data.edges[k].id
           /\ mirror.edges[k].from = data.edges[k].source
           /\ mirror.edges[k].to = data.edges[k].target

\* C31: a snapshot that holds a node record without node_type does not make
\* the mapping throw, and when it is delivered every node and edge record of
\* it is in the mirror exactly once, in snapshot order, with no error set.
UntypedNodeStillLoads ==
    [][\A i \in 1..Len(fetches) :
          fetches[i].kind = "load" =>
              /\ ~MapThrows(Snapshot(fetches[i]).nodes)
              /\ LoadGraphDataOk(i) =>
                     /\ MirrorsSnapshot(graphData', Snapshot(fetches[i]))
                     /\ NoDuplicateIds(graphData'.nodes)
                     /\ NoDuplicateIds(graphData'.edges)
                     /\ error' = NULL
                     /\ ~loading']_vars

\* C31 witness: a graph of three nodes, the untyped one among them, and the
\* edge that starts at the untyped node has been loaded.
UntypedNodeLoaded ==
    /\ lastOp.op = "loadGraphDataOk"
    /\ Len(graphData.nodes) = 3
    /\ \E k \in 1..Len(graphData.nodes) : graphData.nodes[k].node_type = UNDEF
    /\ "e2" \in Ids(graphData.edges)
    /\ error = NULL
    /\ network

\* C32 as stated: between the optimistic insertion of an edge and the moment
\* its add_relationship call is handed to the backend no other request is
\* issued: no get_graph_data and no delete_relationship for that edge id.
CreateRequestIssuedFirst ==
    [][\A i \in 1..Len(creates) :
          creates[i].stage = "timer" =>
              /\ Len(fetches') <= Len(fetches)
              /\ \A j \in 1..Len(deletes') : deletes'[j].id # creates[i].id]_vars

\* The delete_relationship call for an edge is with the backend while the
\* add_relationship call for the same id still waits for its timer.
DeleteOvertakesCreate ==
    \E i \in 1..Len(creates), j \in 1..Len(deletes) :
        /\ creates[i].stage = "timer"
        /\ deletes[j].id = creates[i].id

\* C33: in a refresh every removal is applied before any upsert, for nodes
\* and for edges: when an update call is made, neither DataSet holds an id
\* that is absent from the new snapshot; the calls, applied in that order,
\* give the surface the refresh leaves.
RemovalsBeforeUpserts ==
    [][\A i \in 1..Len(fetches) :
          (UpdateGraphOk(i) /\ network) =>
              LET data == Snapshot(fetches[i])
                  surface == [nodes |-> nodesDataset, edges |-> edgesDataset]
                  calls == RefreshCalls(nodesDataset, edgesDataset,
                                        ProcessNodes(data.nodes),
                                        ProcessEdges(data.edges))
              IN  /\ \A a, b \in 1..Len(calls) :
                         (calls[a].call = "remove" /\ calls[b].call = "update")
                             => a < b
                  /\ \A b \in 1..Len(calls) :
                         calls[b].call = "update" =>
                             LET before == ApplyCalls(surface, calls, b - 1)
                             IN  /\ SetIds(before.nodes) \subseteq Ids(data.nodes)
                                 /\ SetIds(before.edges) \subseteq Ids(data.edges)
                  /\ ApplyCalls(surface, calls, Len(calls))
                         = [nodes |-> nodesDataset', edges |-> edgesDataset']]_vars

\* C33 witness: a refresh has removed a node and an edge and kept others.
RefreshRemovedAndUpserted ==
    /\ lastOp.op = "updateGraphOk"
    /\ network
    /\ "d1" \notin SetIds(nodesDataset)
    /\ "e1" \notin SetIds(edgesDataset)
    /\ "d2" \in SetIds(nodesDataset)
    /\ edgesDataset # {}

\* C35: hasSelectedFirstNode is true exactly when selectedNodeId is set, and
\* selectedNodeId is set only while creation is active.
PendingChildFlagsAgree ==
    /\ hasSelectedFirstNode <=> selectedNodeId # NULL
    /\ selectedNodeId # NULL => isCreatingRelationship

\* C35 witness: a child is pending while an earlier commit is in flight.
ChildPendingWithCommitInFlight ==
    /\ hasSelectedFirstNode
    /\ selectedNodeId # NULL
    /\ isCreatingRelationship
    /\ creates # << >>

\* C36: relationshipCreated is dispatched by the step that commits, once,
\* while the add_relationship call of that commit is still to be made; no
\* other step dispatches it, and the handlers that receive the outcome of the
\* call (success or failure) dispatch nothing.
CreatedEventAtCommitOnly ==
    [][/\ IF Len(creates') > Len(creates)
          THEN /\ Len(creates') = Len(creates) + 1
               /\ lastOp' = OpOn("commit", "relationshipCreated",
                                 creates'[Len(creates')].id)
               /\ creates'[Len(creates')].stage = "timer"
               /\ lastOp' # lastOp
          ELSE lastOp' # lastOp => lastOp'.event # "relationshipCreated"
       /\ \A i \in 1..Len(creates) :
              (CreateOk(i) \/ CreateFail(i)) => lastOp'.event = "none"]_vars

\* C36 witness: the create request of a commit has failed; the commit had
\* dispatched relationshipCreated for it, the failure dispatched nothing.
FailedCommitWasAnnounced ==
    /\ lastOp.op = "createFail"
    /\ lastOp.arg \in Range(UuidPool)
    /\ lastOp.event = "none"
    /\ lastOp.arg \notin Ids(backend.edges)

\* C37: no step sets error back to null once it is set.
ErrorIsSticky ==
    [][error # NULL => error' # NULL]_vars

\* C37 witness: a refresh succeeded after an error had been set; the error
\* is still there.
RefreshSucceededInErrorState ==
    /\ lastOp.op = "updateGraphOk"
    /\ error # NULL
    /\ ~loading

\* C34 as stated: the form issues add_relationship only when a parent and a
\* child are selected and the parent differs from the child.
FormNeverSubmitsSelfRelationship ==
    [][(manager'.task.kind = "add" /\ manager.task.kind # "add") =>
          /\ manager'.task.parent_id # ""
          /\ manager'.task.child_id # ""
          /\ manager'.task.parent_id # manager'.task.child_id]_vars

\* The form has issued add_relationship with the same diary as parent and
\* child.
SelfRelationshipSubmitted ==
    /\ manager.task.kind = "add"
    /\ manager.task.parent_id = manager.task.child_id

\* C38 as stated: saveEntry issues save_diary only with a title that is not
\* blank, with unsaved changes and, for a new entry, with a title no stored
\* diary has (ignoring case); isSaving is false again when saveEntry has
\* finished; saved is dispatched only by the successful save of a new entry.
SaveOnlyWhenValid ==
    [][/\ (editor'.task.kind = "save_diary" /\ editor.task.kind # "save_diary")
              => /\ Trim(editor'.task.title) # ""
                 /\ Trim(editor.title) # ""
                 /\ editor.hasUnsavedChanges
                 /\ editor.isNew =>
                        ~TitleExists(editor.stored, editor'.task.title,
                                     editor.entry.id)
       /\ (editor.isSaving /\ editor'.task.kind = "idle") => ~editor'.isSaving
       /\ editor'.event = "saved"
              => /\ editor.task.kind = "save_diary"
                 /\ editor.isNew
                 /\ editor'.entry.id \in Ids(editor'.stored)]_vars

\* save_diary is in flight for a new entry with a blank title.
BlankTitleSubmitted ==
    /\ editor.task.kind = "save_diary"
    /\ Trim(editor.task.title) = ""

\* The parts of C38 the editor keeps in every run: the title check is made
\* on the title that is saved, isSaving is false when saveEntry has
\* finished, and saved follows the successful save of a new entry.
SaveEntryExitPaths ==
    [][/\ (editor'.task.kind = "save_diary" /\ editor.task.kind # "save_diary"
              /\ editor.isNew)
              => ~TitleExists(editor.stored, editor'.task.title,
                              editor.entry.id)
       /\ (editor.isSaving /\ editor'.task.kind = "idle") => ~editor'.isSaving
       /\ editor'.event = "saved"
              => /\ editor.task.kind = "save_diary"
                 /\ editor.isNew
                 /\ editor'.entry.id \in Ids(editor'.stored)]_vars

====
